---- MODULE Spec2Model ----
(***************************************************************************)
(* Patch admission pipeline of the GPT Actions gateway: the hash-chained   *)
(* audit log (tools/gptactions_gateway/security/chain_audit.py), the       *)
(* Ed25519 attestation (tools/patch_validator/attestation.py), the         *)
(* validator (tools/patch_validator/validator.py) and the integrator       *)
(* (tools/patch_integrator/integrator.py).                                 *)
(*                                                                         *)
(* Cryptography is ideal: sha256 is injective (a digest is the tagged      *)
(* preimage) and an Ed25519 signature verifies exactly under the public    *)
(* key of the signing keypair and for the signed bytes.                    *)
(***************************************************************************)
EXTENDS Integers, Sequences, FiniteSets, TLC

VARIABLES
    \* ---- audit log (chain_audit.py) ----
    logFile,      \* the log file: a sequence of lines
    inst,         \* the live ChainedAuditLog instance: [seq, prev_hash]
    instId,       \* how many instances have been opened on the file so far
    lineWho,      \* history: for each line, <<instance, thread>> that wrote it
    chainVerdict, \* <<>> or <<result of the last verify_chain()>>
    tamper,       \* history: what was done to the file behind append's back
    lock,         \* self._lock: 0 when free, else the holding thread
    tpc,          \* per thread: position inside append()
    tloc,         \* per thread: the locals of append()
    overlap,      \* history: some append waited on the lock held by another
    \* ---- attestation (attestation.py) ----
    attObj,       \* <<>> or <<the attestation dict in the verifier's hands>>
    attSigned,    \* history: <<>> or <<the dict sign_attestation returned>>
    attSignKey,   \* history: the keypair whose private key signed it (0: none)
    attVerdict,   \* <<>> or <<[pub, result] of the last verify_attestation()>>
    attEdits,     \* how many times attObj was changed after signing
    \* ---- validator and integrator (validator.py, integrator.py) ----
    patchFiles,   \* JAIL_ROOT/patches/<id>.json: id -> <<>> or <<bytes>>
    attFiles,     \* ATTESTATION_DIR/<id>.attestation.json: id -> <<>> or <<content>>
    repo,         \* the git repository at REPO_ROOT: [head, branches, wt]
    lastCall,     \* history: <<>> or <<the last integrate_patch call, with its result>>
    integrated,   \* history: the ids integrate_patch has applied (returned True, no dry run)
    validated,    \* history: id -> <<>> or <<the bytes validate_patch hashed>>
    nCalls,       \* integrate_patch calls so far
    nTampers,     \* changes made to the files behind the pipeline's back so far
    toolRun,      \* history: <<>> or <<the tools' statuses in the last validate_patch run>>
    \* ---- gateway: jail (jail.py) ----
    jailPath,     \* the path string a caller is putting together, and how it was made
    jailResult,   \* <<>> or <<[platform, result] of the last Jail.resolve(raw)>>
    patchesDir,   \* JAIL_ROOT/patches: file name -> content
    archiveDir,   \* JAIL_ROOT/archive: file name -> content
    jailCall,     \* history: <<>> or <<the last write_patch / archive_patch call>>
    wpc,          \* per worker: position inside write_patch()
    wloc,         \* per worker: the arguments and locals of write_patch()
    wrace,        \* history: two workers were past the quota check at the same time
    \* ---- gateway: proposal intake (patch_router.py) ----
    _patch_rate,  \* src_ip -> the timestamps of its proposals in the last hour
    _patch_meta,  \* patch ID -> what the gateway process remembers of the proposal
    clock,        \* time.time()
    response,     \* history: <<>> or <<the last request to /propose, with its answer>>
    nRequests,    \* requests to /propose so far
    nOddRequests, \* those of them that were not plain valid proposals
    \* ---- validator in watch mode (validator.py) ----
    processed,    \* watch_mode's set of the patch IDs it has dealt with
    nValidations, \* validate_patch runs so far, of the command line and of watch mode
    \* ---- gateway: IP allowlist (ip_allowlist.py) ----
    allowFile,    \* the allowlist file: <<>> when missing, else <<its content>>
    ipList,       \* <<>> or <<the IPAllowlist object: _networks, _loaded_at, the flags>>
    ipAnswer,     \* history: <<>> or <<the is_allowed call just made, with what it returned>>
    ipNow,        \* time.time() of the gateway's host
    \* ---- gateway: status query (patch_router.py) ----
    hunkCall,     \* the lines of a file, the hunks of a proposal for it, and <<>> or
                  \* <<what _apply_hunks returns for them>>
    integPc,      \* <<>> or <<the integrate_patch call that has hashed the patch file>>
    statusAnswer  \* history: <<>> or <<the GET /status/{patch_id} just made, with its answer>>

auditVars == <<logFile, inst, instId, lineWho, chainVerdict, tamper, lock, tpc, tloc, overlap>>

attVars == <<attObj, attSigned, attSignKey, attVerdict, attEdits>>

integVars ==
    <<patchFiles, attFiles, repo, lastCall, integrated, validated, nCalls, nTampers, toolRun>>

jailVars == <<jailPath, jailResult>>

quotaVars == <<patchesDir, archiveDir, jailCall>>

workerVars == <<wpc, wloc, wrace>>

intakeVars == <<_patch_rate, _patch_meta, clock, response, nRequests, nOddRequests>>

gatewayVars == <<jailVars, quotaVars, workerVars, intakeVars>>

allowVars == <<allowFile, ipList, ipAnswer, ipNow>>

serviceVars == <<processed, nValidations, integPc, hunkCall, allowVars, statusAnswer>>

vars == <<auditVars, attVars, integVars, gatewayVars, serviceVars>>

(***************************************************************************)
(* Bounds of the model.                                                    *)
(***************************************************************************)
MaxLog == 3

NumThreads == 2

MaxInstances == 2

MaxAttEdits == 2

MaxCalls == 2

MaxTampers == 1

Threads == 1..NumThreads

(***************************************************************************)
(* Small helpers.                                                          *)
(***************************************************************************)
Min(a, b) == IF a < b THEN a ELSE b

Max(a, b) == IF a > b THEN a ELSE b

\* dict.get(key, default)
Get(d, k, default) == IF k \in DOMAIN d THEN d[k] ELSE default

\* {k: v for k, v in d.items() if k != drop}
Without(d, drop) == [k \in (DOMAIN d) \ {drop} |-> d[k]]

\* d[k] = v on a dict (adds the key when absent)
Put(d, k, v) == [x \in (DOMAIN d) \cup {k} |-> IF x = k THEN v ELSE d[x]]

RemoveAt(s, i) == [j \in 1..(Len(s) - 1) |-> IF j < i THEN s[j] ELSE s[j + 1]]

\* hashlib.sha256(x).hexdigest(), ideal: the digest determines the preimage
sha256(x) == <<"sha256", x>>

(***************************************************************************)
(* chain_audit.py                                                          *)
(***************************************************************************)
\* "0" * 64
_GENESIS_HASH == <<"0000000000000000000000000000000000000000000000000000000000000000">>

\* the "" that entry.get("prev_hash", "") yields for a missing key
EmptyStr == <<>>

DetailMax == 512

\* detail.replace("\n", " ").replace("\r", " ")[:512]; a detail is a sequence of characters
safe_detail(detail) ==
    LET repl == [i \in 1..Len(detail) |->
                    IF detail[i] \in {"\n", "\r"} THEN " " ELSE detail[i]]
    IN SubSeq(repl, 1, Min(Len(repl), DetailMax))

\* json.dumps(sans_hash, sort_keys=True, ...): the canonical text of a dict is the dict
\* without "entry_hash", its keys in no order; sha256 of it
_compute_entry_hash(entry) ==
    sha256(Without(entry, "entry_hash"))

\* json.dumps(entry) + "\n": one line holding a JSON object
JsonLine(entry) == [kind |-> "obj", val |-> entry]

\* path.read_text().strip().splitlines(): leading and trailing blank lines go
RECURSIVE StripHead(_)
StripHead(lines) ==
    IF lines # <<>> /\ lines[1].kind = "blank" THEN StripHead(Tail(lines)) ELSE lines

RECURSIVE StripTail(_)
StripTail(lines) ==
    IF lines # <<>> /\ lines[Len(lines)].kind = "blank"
    THEN StripTail(SubSeq(lines, 1, Len(lines) - 1))
    ELSE lines

StripLines(lines) == StripTail(StripHead(lines))

_bootstrap_fresh(file) ==
    [seq |-> 0, prev_hash |-> _GENESIS_HASH]

\* _bootstrap: (last seq, last entry_hash) from the last line; (0, genesis) when the
\* file is missing or empty, or when reading the last line raises
_bootstrap(file) ==
    LET lines == StripLines(file) IN
    IF lines = <<>> THEN [seq |-> 0, prev_hash |-> _GENESIS_HASH]
    ELSE LET raw == lines[Len(lines)] IN
         IF raw.kind # "obj" THEN [seq |-> 0, prev_hash |-> _GENESIS_HASH]
         ELSE [seq |-> Get(raw.val, "seq", 0),
               prev_hash |-> Get(raw.val, "entry_hash", _GENESIS_HASH)]

\* the entry append() builds under the lock (lines 106-118)
MakeEntry(seq, ts, event, src_ip, payload_hash, actor_hash, outcome, detail, prev_hash) ==
    LET entry == [seq |-> seq, ts |-> ts, event |-> event, src_ip |-> src_ip,
                  payload_hash |-> payload_hash, actor_hash |-> actor_hash,
                  outcome |-> outcome, detail |-> detail, prev_hash |-> prev_hash]
    IN Put(entry, "entry_hash", _compute_entry_hash(entry))

VerdictOk(n) == [ok |-> TRUE, line |-> 0, raised |-> FALSE, count |-> n]

VerdictBad(i) == [ok |-> FALSE, line |-> i, raised |-> FALSE, count |-> 0]

VerdictRaised(i) == [ok |-> FALSE, line |-> i, raised |-> TRUE, count |-> 0]

\* the entry_hash comparison of verify_chain (lines 164-171)
EntryHashMatches(entry) ==
    Get(entry, "entry_hash", EmptyStr) = _compute_entry_hash(entry)

\* a JSON value that is no string and cannot be sliced: a number
JsonNumber == <<"json-number", 7>>

\* stored_prev[:16] in the diagnostic (line 160) raises TypeError on such a value
Sliceable(v) == v # JsonNumber

\* the loop of verify_chain (lines 144-175), from line i on
RECURSIVE verify_from(_, _, _)
verify_from(lines, i, prev_hash) ==
    IF i > Len(lines) THEN VerdictOk(Len(lines))
    ELSE LET raw == lines[i] IN
         IF raw.kind = "blank" THEN verify_from(lines, i + 1, prev_hash)
         ELSE IF raw.kind = "garbage" THEN VerdictBad(i)
         ELSE IF raw.kind # "obj" THEN VerdictRaised(i)
         ELSE LET entry == raw.val IN
              IF Get(entry, "prev_hash", EmptyStr) # prev_hash
              THEN IF Sliceable(Get(entry, "prev_hash", EmptyStr))
                   THEN VerdictBad(i)
                   ELSE VerdictRaised(i)
              ELSE IF ~EntryHashMatches(entry) THEN VerdictBad(i)
              ELSE verify_from(lines, i + 1, Get(entry, "entry_hash", EmptyStr))

verify_chain(file) ==
    LET lines == StripLines(file) IN
    IF lines = <<>> THEN VerdictOk(0)
    ELSE verify_from(lines, 1, _GENESIS_HASH)

(***************************************************************************)
(* Inputs of append() and the values a tampering hand may write.           *)
(***************************************************************************)
Events == {"GATEWAY_REQUEST"}

Times == {"2026-01-01T00:00:00Z"}

SrcIps == {"127.0.0.1"}

PayloadHashes == {"ph0"}

ActorHashes == {"ah0"}

Outcomes == {"ALLOWED"}

Details == {<<"o", "k">>, <<"a", "\n", "b", "\r">>}

EntryFields ==
    {"seq", "ts", "event", "src_ip", "payload_hash", "actor_hash", "outcome", "detail",
     "prev_hash", "entry_hash"}

StoredHashes(file) ==
    {Get(file[i].val, "entry_hash", EmptyStr) : i \in {j \in 1..Len(file) : file[j].kind = "obj"}}

FieldValues(file, f) ==
    CASE f = "seq" -> 0..(MaxLog + 2)
      [] f = "ts" -> Times \cup {"1999-01-01T00:00:00Z"}
      [] f = "event" -> Events \cup {"FORGED"}
      [] f = "src_ip" -> SrcIps \cup {"10.0.0.9"}
      [] f = "payload_hash" -> PayloadHashes \cup {"ph9"}
      [] f = "actor_hash" -> ActorHashes \cup {"ah9"}
      [] f = "outcome" -> Outcomes \cup {"ALLOWED_BUT_MANIPULATED"}
      [] f = "detail" -> {safe_detail(d) : d \in Details} \cup {<<"x">>}
      [] OTHER -> {_GENESIS_HASH, <<"f00d">>, JsonNumber} \cup StoredHashes(file)

NoTamper == [kind |-> "none", at |-> 0, field |-> "", len |-> 0]

NoLocals ==
    [event |-> "", src_ip |-> "", payload_hash |-> "", actor_hash |-> "", outcome |-> "",
     detail |-> <<>>, entry |-> <<>>]

AuditInit ==
    /\ logFile = <<>>
    /\ inst = _bootstrap(<<>>)
    /\ instId = 1
    /\ lineWho = <<>>
    /\ chainVerdict = <<>>
    /\ tamper = NoTamper
    /\ lock = 0
    /\ tpc = [t \in Threads |-> "idle"]
    /\ tloc = [t \in Threads |-> NoLocals]
    /\ overlap = FALSE

(***************************************************************************)
(* One ChainedAuditLog at a time, called sequentially.                     *)
(***************************************************************************)
\* ChainedAuditLog.append, the whole call (lines 87-124)
AuditAppend(event, ts, src_ip, payload_hash, actor_hash, outcome, detail) ==
    /\ Len(logFile) < MaxLog
    /\ LET seq1 == inst.seq + 1
           entry == MakeEntry(seq1, ts, event, src_ip, payload_hash, actor_hash, outcome,
                              safe_detail(detail), inst.prev_hash)
       IN /\ logFile' = Append(logFile, JsonLine(entry))
          /\ inst' = [seq |-> seq1, prev_hash |-> entry.entry_hash]
    /\ lineWho' = Append(lineWho, <<instId, 0>>)
    /\ chainVerdict' = <<>>
    /\ UNCHANGED <<instId, tamper, lock, tpc, tloc, overlap, attVars, serviceVars, integVars, gatewayVars>>

\* ChainedAuditLog.__init__ on the existing file: a new instance replaces the old one
AuditReopen ==
    /\ instId < MaxInstances
    /\ inst' = _bootstrap(logFile)
    /\ instId' = instId + 1
    /\ chainVerdict' = <<>>
    /\ UNCHANGED <<logFile, lineWho, tamper, lock, tpc, tloc, overlap, attVars, serviceVars, integVars, gatewayVars>>

\* ChainedAuditLog.verify_chain
AuditVerify ==
    /\ chainVerdict' = <<verify_chain(logFile)>>
    /\ UNCHANGED <<logFile, inst, instId, lineWho, tamper, lock, tpc, tloc, overlap, attVars, serviceVars, integVars, gatewayVars>>

\* somebody with write access to the file changes one field of one entry
TamperField(i, f, v) ==
    /\ tamper.kind = "none"
    /\ i \in 1..Len(logFile)
    /\ v # logFile[i].val[f]
    /\ logFile' = [logFile EXCEPT ![i].val[f] = v]
    /\ tamper' = [kind |-> "field", at |-> i, field |-> f, len |-> Len(logFile)]
    /\ chainVerdict' = <<>>
    /\ UNCHANGED <<inst, instId, lineWho, lock, tpc, tloc, overlap, attVars, serviceVars, integVars, gatewayVars>>

\* somebody with write access to the file removes one line
DeleteEntry(i) ==
    /\ tamper.kind = "none"
    /\ i \in 1..Len(logFile)
    /\ logFile' = RemoveAt(logFile, i)
    /\ lineWho' = RemoveAt(lineWho, i)
    /\ tamper' = [kind |-> "delete", at |-> i, field |-> "", len |-> Len(logFile)]
    /\ chainVerdict' = <<>>
    /\ UNCHANGED <<inst, instId, lock, tpc, tloc, overlap, attVars, serviceVars, integVars, gatewayVars>>

\* the texts a line can be overwritten with: no JSON at all, or JSON that is no object
\* (5, [], "x", null)
MalformedLines == {[kind |-> "garbage"], [kind |-> "nonobj"]}

\* somebody with write access to the file overwrites one line
CorruptLine(i, content) ==
    /\ tamper.kind = "none"
    /\ i \in 1..Len(logFile)
    /\ logFile' = [logFile EXCEPT ![i] = content]
    /\ tamper' = [kind |-> "line", at |-> i, field |-> content.kind, len |-> Len(logFile)]
    /\ chainVerdict' = <<>>
    /\ UNCHANGED <<inst, instId, lineWho, lock, tpc, tloc, overlap, attVars, serviceVars, integVars, gatewayVars>>

\* somebody with write access to the file removes prev_hash or entry_hash from one entry
DropField(i, f) ==
    /\ tamper.kind = "none"
    /\ i \in 1..Len(logFile)
    /\ logFile' = [logFile EXCEPT ![i].val = Without(@, f)]
    /\ tamper' = [kind |-> "drop", at |-> i, field |-> f, len |-> Len(logFile)]
    /\ chainVerdict' = <<>>
    /\ UNCHANGED <<inst, instId, lineWho, lock, tpc, tloc, overlap, attVars, serviceVars, integVars, gatewayVars>>

NextAudit ==
    \/ \E i \in 1..MaxLog, content \in MalformedLines : CorruptLine(i, content)
    \/ \E i \in 1..MaxLog, f \in {"prev_hash", "entry_hash"} : DropField(i, f)
    \/ \E e \in Events, ts \in Times, ip \in SrcIps, ph \in PayloadHashes,
          ah \in ActorHashes, o \in Outcomes, d \in Details :
          AuditAppend(e, ts, ip, ph, ah, o, d)
    \/ AuditReopen
    \/ AuditVerify
    \/ \E i \in 1..MaxLog, f \in EntryFields :
          \E v \in FieldValues(logFile, f) : TamperField(i, f, v)
    \/ \E i \in 1..MaxLog : DeleteEntry(i)

(***************************************************************************)
(* Several threads calling append() on one instance.                      *)
(***************************************************************************)
\* "with self._lock" may be entered (line 104)
LockFree_always == TRUE

LockFree == lock = 0

Started == Len(logFile) + Cardinality({t \in Threads : tpc[t] \in {"wait", "locked", "inc", "built"}})

\* the call and line 102, outside the lock
ThreadCall(t, event, src_ip, payload_hash, actor_hash, outcome, detail) ==
    /\ tpc[t] = "idle"
    /\ Started < MaxLog
    /\ tloc' = [tloc EXCEPT ![t] =
                    [event |-> event, src_ip |-> src_ip, payload_hash |-> payload_hash,
                     actor_hash |-> actor_hash, outcome |-> outcome,
                     detail |-> safe_detail(detail), entry |-> <<>>]]
    /\ tpc' = [tpc EXCEPT ![t] = "wait"]
    /\ chainVerdict' = <<>>
    /\ UNCHANGED <<logFile, inst, instId, lineWho, tamper, lock, overlap, attVars, serviceVars, integVars, gatewayVars>>

\* line 104: with self._lock
ThreadAcquire(t) ==
    /\ tpc[t] = "wait"
    /\ LockFree
    /\ lock' = t
    /\ tpc' = [tpc EXCEPT ![t] = "locked"]
    /\ overlap' = (overlap \/ \E u \in Threads \ {t} : tpc[u] # "idle")
    /\ chainVerdict' = <<>>
    /\ UNCHANGED <<logFile, inst, instId, lineWho, tamper, tloc, attVars, serviceVars, integVars, gatewayVars>>

\* line 105: self._seq += 1
ThreadIncSeq(t) ==
    /\ tpc[t] = "locked"
    /\ inst' = [inst EXCEPT !.seq = @ + 1]
    /\ tpc' = [tpc EXCEPT ![t] = "inc"]
    /\ chainVerdict' = <<>>
    /\ UNCHANGED <<logFile, instId, lineWho, tamper, lock, tloc, overlap, attVars, serviceVars, integVars, gatewayVars>>

\* lines 106-118: the entry and its hash, from self._seq and self._prev_hash
ThreadBuildEntry(t, ts) ==
    /\ tpc[t] = "inc"
    /\ LET a == tloc[t]
           entry == MakeEntry(inst.seq, ts, a.event, a.src_ip, a.payload_hash,
                              a.actor_hash, a.outcome, a.detail, inst.prev_hash)
       IN tloc' = [tloc EXCEPT ![t].entry = <<entry>>]
    /\ tpc' = [tpc EXCEPT ![t] = "built"]
    /\ chainVerdict' = <<>>
    /\ UNCHANGED <<logFile, inst, instId, lineWho, tamper, lock, overlap, attVars, serviceVars, integVars, gatewayVars>>

\* lines 120-121: the line is appended to the file
ThreadWriteLine(t) ==
    /\ tpc[t] = "built"
    /\ logFile' = Append(logFile, JsonLine(tloc[t].entry[1]))
    /\ lineWho' = Append(lineWho, <<instId, t>>)
    /\ tpc' = [tpc EXCEPT ![t] = "written"]
    /\ chainVerdict' = <<>>
    /\ UNCHANGED <<inst, instId, tamper, lock, tloc, overlap, attVars, serviceVars, integVars, gatewayVars>>

\* lines 123-124: self._prev_hash = entry_hash, return; the with block releases the lock
ThreadUpdatePrev(t) ==
    /\ tpc[t] = "written"
    /\ inst' = [inst EXCEPT !.prev_hash = tloc[t].entry[1].entry_hash]
    /\ lock' = IF lock = t THEN 0 ELSE lock
    /\ tpc' = [tpc EXCEPT ![t] = "idle"]
    /\ tloc' = [tloc EXCEPT ![t] = NoLocals]
    /\ chainVerdict' = <<>>
    /\ UNCHANGED <<logFile, instId, lineWho, tamper, overlap, attVars, serviceVars, integVars, gatewayVars>>

NextAuditConc ==
    \/ \E t \in Threads, e \in Events, ip \in SrcIps, ph \in PayloadHashes,
          ah \in ActorHashes, o \in Outcomes, d \in Details :
          ThreadCall(t, e, ip, ph, ah, o, d)
    \/ \E t \in Threads : ThreadAcquire(t)
    \/ \E t \in Threads : ThreadIncSeq(t)
    \/ \E t \in Threads, ts \in Times : ThreadBuildEntry(t, ts)
    \/ \E t \in Threads : ThreadWriteLine(t)
    \/ \E t \in Threads : ThreadUpdatePrev(t)
    \/ AuditVerify


(***************************************************************************)
(* attestation.py                                                          *)
(***************************************************************************)
\* keypairs generate_keypair() has made; 0 stands for a key file that does not exist
Keypairs == {1, 2}

POLICY_VERSION == "1.0"

\* json.dumps(sans_sig, sort_keys=True, separators=(",", ":")): the canonical bytes of
\* a dict are the dict without "signature", its keys in no order
_canonical_json_nochecks(data) == Without(Without(data, "signature"), "checks")

_canonical_json(data) == Without(data, "signature")

\* Ed25519: private_key.sign(message) and public_key.verify(signature, message), ideal
Ed25519Sign(key, message) == [key |-> key, message |-> message]

Ed25519Verify(pub, raw_sig, message) == raw_sig.key = pub /\ raw_sig.message = message

\* base64.urlsafe_b64encode(raw).decode("ascii"): a text, here <<form, raw>>; "" is <<>>
B64Encode(raw) == <<"padded", raw>>

\* the texts base64.urlsafe_b64decode(text + "==") maps to the same bytes: the padded
\* one, the one without its padding, one with characters outside the alphabet in it
B64Forms == {"padded", "unpadded", "junk-chars"}

\* urlsafe_b64decode raises binascii.Error on any other text
B64Decodes(text) == Len(text) = 2 /\ text[1] \in B64Forms

B64Decode(text) == text[2]

\* sign_attestation (lines 139-160)
sign_attestation(patch_id, patch_hash, checks, outcome, private_key, now) ==
    LET attestation == [patch_id |-> patch_id, patch_hash |-> patch_hash,
                        policy |-> POLICY_VERSION, timestamp |-> now,
                        checks |-> checks, outcome |-> outcome]
        raw_sig == Ed25519Sign(private_key, _canonical_json(attestation))
    IN Put(attestation, "signature", B64Encode(raw_sig))

\* verify_attestation (lines 171-211) on a dict: "ok" when it returns, else the name
\* of the exception it raises; public_key is 0 when the key file does not exist
verify_attestation(attestation, public_key) ==
    IF public_key = 0 THEN "AttestationVerificationError"
    ELSE LET sig_b64 == Get(attestation, "signature", <<>>) IN
         IF sig_b64 = <<>> THEN "AttestationVerificationError"
         ELSE IF ~B64Decodes(sig_b64) THEN "AttestationVerificationError"
         ELSE IF ~Ed25519Verify(public_key, B64Decode(sig_b64), _canonical_json(attestation))
              THEN "AttestationVerificationError"
              ELSE "ok"

(***************************************************************************)
(* The attestation round trip: sign, change, verify.                       *)
(***************************************************************************)
AttPatchIds == {"aaaaaaaa-0001", "bbbbbbbb-0002"}

AttHashes == {sha256("bytes-1"), sha256("bytes-2")}

CheckValues == {"PASS", "FAIL", "SKIP", "MANUAL_REQUIRED"}

AttOutcomes == {"APPROVED", "REJECTED", "MANUAL_REQUIRED"}

AttChecks ==
    {[structural |-> "PASS", sast |-> "PASS", secrets |-> "PASS", deps |-> "PASS"],
     [structural |-> "PASS", sast |-> "SKIP", secrets |-> "PASS", deps |-> "MANUAL_REQUIRED"],
     [structural |-> "FAIL", sast |-> "SKIP", secrets |-> "SKIP", deps |-> "SKIP"]}

AttTimes == {"2026-01-01T00:00:00Z", "2026-01-02T00:00:00Z"}

SignedFields == {"patch_id", "patch_hash", "policy", "timestamp", "outcome"}

AttFieldValues(f) ==
    CASE f = "patch_id" -> AttPatchIds
      [] f = "patch_hash" -> AttHashes
      [] f = "policy" -> {POLICY_VERSION, "9.9"}
      [] f = "timestamp" -> AttTimes
      [] OTHER -> AttOutcomes

AttInit ==
    /\ attObj = <<>>
    /\ attSigned = <<>>
    /\ attSignKey = 0
    /\ attVerdict = <<>>
    /\ attEdits = 0

\* the validator signs a verdict
AttSign(patch_id, patch_hash, checks, outcome, key, now) ==
    /\ attObj = <<>>
    /\ LET a == sign_attestation(patch_id, patch_hash, checks, outcome, key, now)
       IN attObj' = <<a>> /\ attSigned' = <<a>>
    /\ attSignKey' = key
    /\ attVerdict' = <<>>
    /\ UNCHANGED <<attEdits, auditVars, integVars, gatewayVars, serviceVars>>

AttEdited(a) ==
    /\ attObj # <<>>
    /\ attEdits < MaxAttEdits
    /\ a # attObj[1]
    /\ attObj' = <<a>>
    /\ attEdits' = attEdits + 1
    /\ attVerdict' = <<>>
    /\ UNCHANGED <<attSigned, attSignKey, auditVars, integVars, gatewayVars, serviceVars>>

\* one field of the signed object gets another value
AttChangeField(f, v) ==
    /\ attObj # <<>>
    /\ f \in DOMAIN attObj[1]
    /\ AttEdited([attObj[1] EXCEPT ![f] = v])

\* one entry of the checks map gets another value
AttChangeCheck(c, v) ==
    /\ attObj # <<>>
    /\ AttEdited([attObj[1] EXCEPT !["checks"][c] = v])

\* a field is added
AttAddField(k, v) ==
    /\ attObj # <<>>
    /\ k \notin DOMAIN attObj[1]
    /\ AttEdited(Put(attObj[1], k, v))

\* the signature is removed
AttRemoveSignature ==
    /\ attObj # <<>>
    /\ "signature" \in DOMAIN attObj[1]
    /\ AttEdited(Without(attObj[1], "signature"))

\* the signature is emptied, or replaced by text that is not base64
AttBlankSignature(text) ==
    /\ attObj # <<>>
    /\ "signature" \in DOMAIN attObj[1]
    /\ AttEdited([attObj[1] EXCEPT !["signature"] = text])

\* the signature text is rewritten into another text of the same bytes
AttReencodeSignature(form) ==
    /\ attObj # <<>>
    /\ "signature" \in DOMAIN attObj[1]
    /\ B64Decodes(attObj[1]["signature"])
    /\ AttEdited([attObj[1] EXCEPT !["signature"] = <<form, B64Decode(@)>>])

\* the integrator (or the gateway) verifies with the public key file it has
AttVerify(pub) ==
    /\ attObj # <<>>
    /\ attVerdict' = <<[pub |-> pub, result |-> verify_attestation(attObj[1], pub)]>>
    /\ UNCHANGED <<attObj, attSigned, attSignKey, attEdits, auditVars, integVars, gatewayVars, serviceVars>>

NextAtt ==
    \/ \E c \in AttChecks, o \in AttOutcomes, k \in Keypairs :
          AttSign("aaaaaaaa-0001", sha256("bytes-1"), c, o, k, "2026-01-01T00:00:00Z")
    \/ \E f \in SignedFields : \E v \in AttFieldValues(f) : AttChangeField(f, v)
    \/ \E c \in {"structural", "sast", "secrets", "deps"}, v \in CheckValues :
          AttChangeCheck(c, v)
    \/ \E k \in {"approved_by", "reviewer"}, v \in {"root"} : AttAddField(k, v)
    \/ AttRemoveSignature
    \/ \E text \in {<<>>, <<"not base64">>} : AttBlankSignature(text)
    \/ \E form \in B64Forms : AttReencodeSignature(form)
    \/ \E pub \in Keypairs \cup {0} : AttVerify(pub)


(***************************************************************************)
(* The repository at REPO_ROOT and the git commands _git() runs on it.     *)
(* A file's text is [lines, nl]: its lines and whether the last one ends   *)
(* in a newline. A branch is the sequence of its commits, oldest first.    *)
(***************************************************************************)
MainBranch == <<"main">>

INTEGRATION_BRANCH_PREFIX == "gptactions/patch-"

\* a patch id is <<its first 8 characters, the rest>>; patch_id[:8]
Prefix8(patch_id) == patch_id[1]

\* f"{INTEGRATION_BRANCH_PREFIX}{patch_id[:8]}" (line 184)
BranchName(patch_id) == <<INTEGRATION_BRANCH_PREFIX, Prefix8(patch_id)>>

FileText(lines) == [lines |-> lines, nl |-> TRUE]

\* target.read_text(...).splitlines() (line 213)
ReadLines(text) == text.lines

\* target.write_text("\n".join(modified_lines) + "\n") (line 215): no lines give the
\* text "\n", which reads back as one empty line
WriteLines(modified_lines) ==
    [lines |-> IF modified_lines = <<>> THEN <<"">> ELSE modified_lines, nl |-> TRUE]

HeadTree(r) == r.branches[r.head][Len(r.branches[r.head])].tree

TreeOf(r, name) == r.branches[name][Len(r.branches[name])].tree

GitOk(r) == [ok |-> TRUE, repo |-> r]

GitFail(r) == [ok |-> FALSE, repo |-> r]

\* git checkout -b <name>: fails when the branch exists; local changes are kept
git_checkout_b(r, name) ==
    IF name \in DOMAIN r.branches THEN GitFail(r)
    ELSE GitOk([r EXCEPT !.branches = Put(r.branches, name, r.branches[r.head]),
                         !.head = name])

\* git checkout <name>: fails when the branch does not exist or when a locally changed
\* file differs between the two branches; other local changes are kept
git_checkout(r, name) ==
    IF name \notin DOMAIN r.branches THEN GitFail(r)
    ELSE LET from == HeadTree(r)
             to == TreeOf(r, name)
         IN IF \E p \in DOMAIN r.wt : r.wt[p] # from[p] /\ from[p] # to[p]
            THEN GitFail(r)
            ELSE GitOk([r EXCEPT !.wt = [p \in DOMAIN r.wt |->
                                            IF from[p] # to[p] THEN to[p] ELSE r.wt[p]],
                                 !.head = name])

\* git branch -D <name>: fails on the checked-out branch and on a missing one
git_branch_D(r, name) ==
    IF name \notin DOMAIN r.branches \/ name = r.head THEN GitFail(r)
    ELSE GitOk([r EXCEPT !.branches = Without(r.branches, name)])

\* git add <files>; git commit -m <msg>: commit fails when nothing is staged
\* the file of the repository a relative path names once REPO_ROOT / path is
\* resolved: empty and "." segments drop out
RepoPath(file_path) ==
    CASE file_path = ".github//workflows/ci.yml" -> ".github/workflows/ci.yml"
      [] file_path = ".github/./workflows/ci.yml" -> ".github/workflows/ci.yml"
      [] OTHER -> file_path

git_add_commit(r, files, msg) ==
    LET staged == [p \in DOMAIN r.wt |->
                      IF \E i \in 1..Len(files) : RepoPath(files[i]) = p
                      THEN r.wt[p] ELSE HeadTree(r)[p]]
    IN IF staged = HeadTree(r) THEN GitFail(r)
       ELSE GitOk([r EXCEPT !.branches[r.head] = Append(@, [msg |-> msg, tree |-> staged])])

(***************************************************************************)
(* integrator.py                                                           *)
(***************************************************************************)
\* paths for which (REPO_ROOT / file_path).resolve() lies outside REPO_ROOT
EscapingPaths == {"../outside.py"}

\* slice.indices(): a Python slice bound on a list of n items
SliceIndex(i, n) == IF i < 0 THEN Max(n + i, 0) ELSE Min(i, n)

\* result[start:end] = new_lines, start and end 0-based as in Python
PySliceAssign(result, start, end, new_lines) ==
    LET n == Len(result)
        s == SliceIndex(start, n)
        e == Max(SliceIndex(end, n), s)
    IN SubSeq(result, 1, s) \o new_lines \o SubSeq(result, e + 1, n)

\* sorted(hunks, key=start_line): stable, ascending
RECURSIVE InsertHunk(_, _)
InsertHunk(sorted, h) ==
    IF sorted = <<>> THEN <<h>>
    ELSE IF Get(Head(sorted), "start_line", 1) <= Get(h, "start_line", 1)
         THEN <<Head(sorted)>> \o InsertHunk(Tail(sorted), h)
         ELSE <<h>> \o sorted

RECURSIVE SortHunks(_)
SortHunks(hunks) ==
    IF hunks = <<>> THEN <<>>
    ELSE InsertHunk(SortHunks(SubSeq(hunks, 1, Len(hunks) - 1)), hunks[Len(hunks)])

\* the body of the loop of _apply_hunks (lines 262-265)
ApplyHunk(result, hunk) ==
    LET start == Get(hunk, "start_line", 1) - 1
        end == Get(hunk, "end_line", start + 1)
    IN PySliceAssign(result, start, end, Get(hunk, "new_lines", <<>>))

\* _apply_hunks (lines 257-266): the hunks in descending start_line order
RECURSIVE ApplySorted(_, _, _)
ApplySorted(result, sorted, i) ==
    IF i = 0 THEN result ELSE ApplySorted(ApplyHunk(result, sorted[i]), sorted, i - 1)

RECURSIVE ApplyAscending(_, _, _)
ApplyAscending(result, sorted, i) ==
    IF i > Len(sorted) THEN result
    ELSE ApplyAscending(ApplyHunk(result, sorted[i]), sorted, i + 1)

_apply_hunks_ascending(lines, hunks) == ApplyAscending(lines, SortHunks(hunks), 1)

_apply_hunks(lines, hunks) ==
    LET sorted == SortHunks(hunks) IN ApplySorted(lines, sorted, Len(sorted))

\* _apply_hunks on its own: a file of up to MaxFileLines lines "l1", "l2", ... and a
\* proposal of up to MaxHunkCount hunks for it, listed in any order
MaxFileLines == 4

MinFileLines == 2

MaxHunkCount == 2

MaxStartLine == 4

FileLine(i) == <<"l", i>>

\* a hunk as the schema admits it (patch_schema.py lines 96-118): 1 <= start_line <=
\* end_line; old_lines may be empty, or hold the lines of the range
HunkOld(s, e, old_lines, new_lines) ==
    [start_line |-> s, end_line |-> e, old_lines |-> old_lines, new_lines |-> new_lines]

NewLine(i) == <<"n", i>>

HunkNewLines == {<<>>, <<NewLine(1)>>, <<NewLine(1), NewLine(2)>>}

\* _apply_hunks does not read old_lines: empty, or not
HunkOldLines == {<<>>, <<<<"o", 1>>>>}

HunkRanges == {r \in (1..MaxStartLine) \X (1..MaxStartLine) : r[1] <= r[2]}

HunkInputs ==
    {HunkOld(r[1], r[2], old_lines, new_lines) :
        r \in HunkRanges, old_lines \in HunkOldLines, new_lines \in HunkNewLines}

HunksInit ==
    hunkCall = [lines |-> [i \in 1..MinFileLines |-> FileLine(i)], hunks |-> <<>>,
                result |-> <<>>]

\* the file has one more line
HunkFileGrows ==
    /\ Len(hunkCall.lines) < MaxFileLines
    /\ hunkCall.hunks = <<>>
    /\ hunkCall' = [hunkCall EXCEPT !.lines = Append(@, FileLine(Len(@) + 1)),
                                    !.result = <<>>]
    /\ UNCHANGED <<processed, nValidations, integPc, allowVars, statusAnswer>>
    /\ UNCHANGED <<auditVars, attVars, integVars, gatewayVars>>

\* the proposal lists one more hunk for the file
HunkListed(hunk) ==
    /\ Len(hunkCall.hunks) < MaxHunkCount
    /\ hunkCall.result = <<>>
    /\ hunkCall' = [hunkCall EXCEPT !.hunks = Append(@, hunk)]
    /\ UNCHANGED <<processed, nValidations, integPc, allowVars, statusAnswer>>
    /\ UNCHANGED <<auditVars, attVars, integVars, gatewayVars>>

\* modified_lines = _apply_hunks(original_lines, file_entry.get("hunks", [])) (line 214)
ApplyHunksCall ==
    /\ hunkCall.hunks # <<>>
    /\ hunkCall.result = <<>>
    /\ hunkCall' = [hunkCall EXCEPT !.result = <<_apply_hunks(hunkCall.lines, hunkCall.hunks)>>]
    /\ UNCHANGED <<processed, nValidations, integPc, allowVars, statusAnswer>>
    /\ UNCHANGED <<auditVars, attVars, integVars, gatewayVars>>

NextHunks ==
    \/ HunkFileGrows
    \/ \E hunk \in HunkInputs : HunkListed(hunk)
    \/ ApplyHunksCall

\* the loop over target_files (lines 197-219), from entry i on: the working tree,
\* applied_files, the number of errors and the writes made
RECURSIVE ApplyFiles(_, _, _)
ApplyFiles(target_files, i, acc) ==
    IF i > Len(target_files) THEN acc
    ELSE LET file_entry == target_files[i]
             file_path == Get(file_entry, "path", "")
             target == RepoPath(file_path)
         IN IF file_path \in EscapingPaths
            THEN ApplyFiles(target_files, i + 1, [acc EXCEPT !.errors = @ + 1])
            ELSE IF target \notin DOMAIN acc.wt
            THEN ApplyFiles(target_files, i + 1, [acc EXCEPT !.errors = @ + 1])
            ELSE LET original_lines == ReadLines(acc.wt[target])
                     modified_lines == _apply_hunks(original_lines, Get(file_entry, "hunks", <<>>))
                 IN ApplyFiles(target_files, i + 1,
                        [acc EXCEPT !.wt[target] = WriteLines(modified_lines),
                                    !.applied = Append(@, file_path),
                                    !.muts = Append(@, "write")])

\* the gates of integrate_patch
HashMatches_skip(current_hash, attested_hash) == TRUE

\* line 154
HashMatches(current_hash, attested_hash) == current_hash = attested_hash

NeedsConfirmation_anyOutcome(outcome, human_confirmed) == ~human_confirmed

\* line 127
NeedsConfirmation(outcome, human_confirmed) ==
    outcome = "MANUAL_REQUIRED" /\ ~human_confirmed

\* line 123
IsRejected(outcome) == outcome = "REJECTED"

\* json.loads on a patch file's bytes
PatchParses(bytes) == bytes.kind = "json"

CallResult(ret, r, muts, errors) == [ret |-> ret, repo |-> r, muts |-> muts, errors |-> errors]

\* lines 184-250: the integration branch, the files, the rollback or the commit
ApplyAndCommit(attestation, patch_data, r, patch_id) ==
    LET branch_name == BranchName(patch_id)
        created == git_checkout_b(r, branch_name)
        switched == IF created.ok THEN created ELSE git_checkout(r, branch_name)
    IN IF ~switched.ok THEN CallResult("CalledProcessError", r, <<>>, 0)
       ELSE LET m0 == <<IF created.ok THEN "checkout -b" ELSE "checkout">>
                done == ApplyFiles(Get(patch_data, "target_files", <<>>), 1,
                                   [wt |-> switched.repo.wt, applied |-> <<>>,
                                    errors |-> 0, muts |-> m0])
                r1 == [switched.repo EXCEPT !.wt = done.wt]
            IN IF done.errors > 0
               THEN LET back == git_checkout(r1, r.head)
                        gone == git_branch_D(back.repo, branch_name)
                    IN IF ~back.ok THEN CallResult("False", r1, done.muts, done.errors)
                       ELSE IF ~gone.ok
                            THEN CallResult("False", back.repo,
                                            Append(done.muts, "checkout -"), done.errors)
                            ELSE CallResult("False", gone.repo,
                                            done.muts \o <<"checkout -", "branch -D">>,
                                            done.errors)
               ELSE LET commit_msg == [patch_id |-> patch_id,
                                       policy |-> Get(attestation, "policy", "None"),
                                       timestamp |-> Get(attestation, "timestamp", "None"),
                                       checks |-> Get(attestation, "checks", <<>>),
                                       applied_files |-> done.applied,
                                       rationale |-> Get(patch_data, "rationale", "N/A")]
                        committed == git_add_commit(r1, done.applied, commit_msg)
                    IN IF ~committed.ok
                       THEN CallResult("CalledProcessError", r1, Append(done.muts, "add"), 0)
                       ELSE CallResult("True", committed.repo,
                                       done.muts \o <<"add", "commit">>, 0)

\* integrate_patch (lines 78-250). att_file and the two reads of the patch file
\* (line 151 for the hash, line 170 for the content) are <<>> for a missing file;
\* public_key is 0 for a missing key file. The result: "True", "False" or the name of
\* the exception raised, the repository afterwards, the git and file mutations made.
integrate_patch(att_file, public_key, read_hash, read_parse, r, patch_id, dry_run, human_confirmed) ==
    IF att_file = <<>> THEN CallResult("False", r, <<>>, 0)
    ELSE IF att_file[1].kind = "garbage" THEN CallResult("False", r, <<>>, 0)
    ELSE IF att_file[1].kind # "obj" THEN CallResult("AttributeError", r, <<>>, 0)
    ELSE LET attestation == att_file[1].val
             outcome == Get(attestation, "outcome", "UNKNOWN")
         IN IF verify_attestation(attestation, public_key) # "ok"
            THEN CallResult("False", r, <<>>, 0)
            ELSE IF IsRejected(outcome) THEN CallResult("False", r, <<>>, 0)
            ELSE IF NeedsConfirmation(outcome, human_confirmed)
                 THEN CallResult("False", r, <<>>, 0)
            ELSE IF read_hash = <<>> THEN CallResult("False", r, <<>>, 0)
            ELSE IF ~HashMatches(sha256(read_hash[1]), Get(attestation, "patch_hash", EmptyStr))
                 THEN CallResult("False", r, <<>>, 0)
            ELSE IF read_parse = <<>> THEN CallResult("FileNotFoundError", r, <<>>, 0)
            ELSE IF ~PatchParses(read_parse[1]) THEN CallResult("JSONDecodeError", r, <<>>, 0)
            ELSE IF dry_run THEN CallResult("True", r, <<>>, 0)
            ELSE ApplyAndCommit(attestation, read_parse[1].data, r, patch_id)

(***************************************************************************)
(* validator.py                                                            *)
(***************************************************************************)
\* what check_structure and run_sast report for a patch; the validator's verdict is
\* a function of these alone
CheckReports ==
    {[passed |-> TRUE, hard_blocked |-> FALSE, sast |-> "SKIP", gitleaks |-> "SKIP",
      dependency_gate_triggered |-> FALSE, requires_manual_override |-> FALSE],
     [passed |-> TRUE, hard_blocked |-> FALSE, sast |-> "PASS", gitleaks |-> "PASS",
      dependency_gate_triggered |-> TRUE, requires_manual_override |-> FALSE],
     [passed |-> FALSE, hard_blocked |-> TRUE, sast |-> "SKIP", gitleaks |-> "SKIP",
      dependency_gate_triggered |-> FALSE, requires_manual_override |-> TRUE]}

\* _reject (lines 193-201): the defaults of the checks not run
RejectChecks(checks) ==
    [c \in {"structural", "sast", "secrets", "deps"} |->
        IF c \in DOMAIN checks THEN checks[c]
        ELSE IF c = "structural" THEN "FAIL" ELSE "SKIP"]

\* validate_patch (lines 95-190) on the bytes read at line 101: the checks and the
\* outcome it signs
Verdict(bytes, rep) ==
    IF bytes.kind # "json" THEN [checks |-> RejectChecks(<<>>), outcome |-> "REJECTED"]
    ELSE LET c1 == [structural |-> IF rep.passed THEN "PASS" ELSE "FAIL"]
             c2 == c1 @@ [sast |-> rep.sast, secrets |-> rep.gitleaks]
         IN IF rep.hard_blocked \/ ~rep.passed
            THEN [checks |-> RejectChecks(c1), outcome |-> "REJECTED"]
            ELSE IF rep.sast \notin {"PASS", "SKIP"}
            THEN [checks |-> RejectChecks(c2), outcome |-> "REJECTED"]
            ELSE IF rep.dependency_gate_triggered
            THEN [checks |-> c2 @@ [deps |-> "MANUAL_REQUIRED"], outcome |-> "MANUAL_REQUIRED"]
            ELSE IF rep.requires_manual_override
            THEN [checks |-> c2 @@ [deps |-> "PASS"], outcome |-> "MANUAL_REQUIRED"]
            ELSE [checks |-> c2 @@ [deps |-> "PASS"], outcome |-> "APPROVED"]

\* the file _sign_attestation writes (lines 211-224)
AttestationFile(attestation) == [kind |-> "obj", val |-> attestation]


ApprovingReport ==
    CHOOSE rep \in CheckReports :
        /\ rep.passed /\ ~rep.hard_blocked /\ rep.sast \in {"PASS", "SKIP"}
        /\ ~rep.dependency_gate_triggered /\ ~rep.requires_manual_override

Now == "2026-01-01T00:00:00Z"

(***************************************************************************)
(* The pipeline: intake writes a proposal, the validator attests it, the   *)
(* operator runs the integrator; the files can change in between.          *)
(***************************************************************************)
PatchIds == {<<"aaaaaaaa", 1>>, <<"bbbbbbbb", 2>>}

\* the keypair whose private key the validator holds (ATTESTATION_PRIVATE_KEY)
ValidatorPrivateKey == 1

\* the keypair whose public key the integrator reads (ATTESTATION_PUBLIC_KEY)
IntegratorPublicKey == 1

\* a keypair of somebody else
ForeignKey == CHOOSE k \in Keypairs : k # ValidatorPrivateKey

Hunk(s, e, new) == [start_line |-> s, end_line |-> e, new_lines |-> new]

OneFile(path, hunk) == [path |-> path, hunks |-> <<hunk>>]

PatchGood ==
    [rationale |-> "rename", target_files |-> <<OneFile("a.py", Hunk(1, 1, <<"x">>))>>]

PatchGrow ==
    [rationale |-> "add a line", target_files |-> <<OneFile("a.py", Hunk(2, 2, <<"l2", "n">>))>>]

PatchNoop ==
    [rationale |-> "same text", target_files |-> <<OneFile("a.py", Hunk(1, 1, <<"l1">>))>>]

PatchPartial ==
    [rationale |-> "four files",
     target_files |-> <<OneFile("a.py", Hunk(1, 1, <<"x">>)),
                        OneFile("missing.py", Hunk(1, 1, <<"y">>)),
                        OneFile("../outside.py", Hunk(1, 1, <<"y">>)),
                        OneFile("b.py", Hunk(1, 1, <<"y">>))>>]

\* the bytes of a proposal file: JSON text of some data (ws tells apart texts of the
\* same data that differ in whitespace), or bytes that are no JSON
JsonBytes(data, ws) == [kind |-> "json", data |-> data, ws |-> ws]

GarbageBytes == [kind |-> "garbage"]

SubmittedBytes == {JsonBytes(d, 0) : d \in {PatchGood, PatchGrow, PatchNoop, PatchPartial}}

TamperedBytes == {JsonBytes(PatchGood, 1), GarbageBytes}

InitTree ==
    [p \in {"a.py", "b.py", "tools/example.py", ".github/workflows/ci.yml"} |->
        CASE p = "a.py" -> FileText(<<"l1", "l2">>)
          [] p = "b.py" -> FileText(<<"m1">>)
          [] p = "tools/example.py" -> FileText(<<"l1", "l2", "l3">>)
          [] OTHER -> FileText(<<"on: push">>)]

InitCommit ==
    [msg |-> [patch_id |-> <<"", 0>>, policy |-> "", timestamp |-> "",
              checks |-> <<>>, applied_files |-> <<>>, rationale |-> "initial commit"],
     tree |-> InitTree]

IntegInit ==
    /\ patchFiles = [id \in PatchIds |-> <<>>]
    /\ attFiles = [id \in PatchIds |-> <<>>]
    /\ repo = [head |-> MainBranch, branches |-> [b \in {MainBranch} |-> <<InitCommit>>],
               wt |-> InitTree]
    /\ lastCall = <<>>
    /\ integrated = {}
    /\ validated = [id \in PatchIds |-> <<>>]
    /\ nCalls = 0
    /\ nTampers = 0
    /\ toolRun = <<>>

\* the gateway writes an accepted proposal into the jail
SubmitPatch(id, bytes) ==
    /\ patchFiles[id] = <<>>
    /\ validated[id] = <<>>
    /\ patchFiles' = [patchFiles EXCEPT ![id] = <<bytes>>]
    /\ lastCall' = <<>>
    /\ UNCHANGED <<attFiles, repo, integrated, validated, nCalls, nTampers, toolRun, auditVars, attVars, serviceVars, gatewayVars>>

\* validate_patch(id): read and hash the file, run the checks, sign and persist
ValidatePatch(id, rep, now) ==
    /\ patchFiles[id] # <<>>
    /\ LET bytes == patchFiles[id][1]
           v == Verdict(bytes, rep)
           a == sign_attestation(id, sha256(bytes), v.checks, v.outcome,
                                 ValidatorPrivateKey, now)
       IN /\ attFiles' = [attFiles EXCEPT ![id] = <<AttestationFile(a)>>]
          /\ validated' = [validated EXCEPT ![id] = <<bytes>>]
    /\ lastCall' = <<>>
    /\ UNCHANGED <<patchFiles, repo, integrated, nCalls, nTampers, toolRun, auditVars, attVars, serviceVars, gatewayVars>>

\* a writer in the jail replaces the bytes of a proposal file
TamperPatch(id, bytes) ==
    /\ nTampers < MaxTampers
    /\ patchFiles[id] # <<>>
    /\ patchFiles[id][1] # bytes
    /\ patchFiles' = [patchFiles EXCEPT ![id] = <<bytes>>]
    /\ nTampers' = nTampers + 1
    /\ lastCall' = <<>>
    /\ UNCHANGED <<attFiles, repo, integrated, validated, nCalls, toolRun, auditVars, attVars, serviceVars, gatewayVars>>

\* the proposal file leaves patches/ (archived)
RemovePatch(id) ==
    /\ nTampers < MaxTampers
    /\ patchFiles[id] # <<>>
    /\ patchFiles' = [patchFiles EXCEPT ![id] = <<>>]
    /\ nTampers' = nTampers + 1
    /\ lastCall' = <<>>
    /\ UNCHANGED <<attFiles, repo, integrated, validated, nCalls, toolRun, auditVars, attVars, serviceVars, gatewayVars>>

AttFileReplaced(id, content) ==
    /\ nTampers < MaxTampers
    /\ attFiles[id] # content
    /\ attFiles' = [attFiles EXCEPT ![id] = content]
    /\ nTampers' = nTampers + 1
    /\ lastCall' = <<>>
    /\ UNCHANGED <<patchFiles, repo, integrated, validated, nCalls, toolRun, auditVars, attVars, serviceVars, gatewayVars>>

\* a field of a stored attestation is changed, its signature left as it is
TamperAttestation(id, f, v) ==
    /\ attFiles[id] # <<>>
    /\ attFiles[id][1].kind = "obj"
    /\ AttFileReplaced(id, <<AttestationFile([attFiles[id][1].val EXCEPT ![f] = v])>>)

\* somebody without the validator's key writes an attestation of their own
ForgeAttestation(id, now) ==
    /\ patchFiles[id] # <<>>
    /\ AttFileReplaced(id, <<AttestationFile(
           sign_attestation(id, sha256(patchFiles[id][1]),
                            [structural |-> "PASS", sast |-> "PASS", secrets |-> "PASS",
                             deps |-> "PASS"],
                            "APPROVED", ForeignKey, now))>>)

\* the attestation file is overwritten with something that is no attestation, or removed
CorruptAttestation(id, content) ==
    /\ attFiles[id] # <<>>
    /\ AttFileReplaced(id, content)

\* integrate_patch(id, dry_run, human_confirmed), the whole call
Integrate(id, dry_run, human_confirmed) ==
    /\ nCalls < MaxCalls
    /\ LET res == integrate_patch(attFiles[id], IntegratorPublicKey, patchFiles[id],
                                  patchFiles[id], repo, id, dry_run, human_confirmed)
       IN /\ repo' = res.repo
          /\ lastCall' = <<[patch_id |-> id, dry_run |-> dry_run,
                            human_confirmed |-> human_confirmed,
                            att_file |-> attFiles[id], patch_file |-> patchFiles[id],
                            validated |-> validated[id], before |-> repo,
                            was_integrated |-> id \in integrated, result |-> res]>>
          /\ integrated' = IF res.ret = "True" /\ ~dry_run THEN integrated \cup {id}
                           ELSE integrated
    /\ nCalls' = nCalls + 1
    /\ UNCHANGED <<patchFiles, attFiles, validated, nTampers, toolRun, auditVars, attVars, serviceVars, gatewayVars>>

\* integrate_patch up to the hash check (lines 78-166): the attestation file is read
\* (line 100) and the patch file is read for its hash (line 151)
IntegrateReadHash(id, dry_run, human_confirmed) ==
    /\ nCalls < MaxCalls
    /\ integPc = <<>>
    /\ integPc' = <<[patch_id |-> id, dry_run |-> dry_run,
                     human_confirmed |-> human_confirmed,
                     att_file |-> attFiles[id], read_hash |-> patchFiles[id]]>>
    /\ nCalls' = nCalls + 1
    /\ lastCall' = <<>>
    /\ UNCHANGED <<patchFiles, attFiles, repo, integrated, validated, nTampers, toolRun>>
    /\ UNCHANGED <<processed, nValidations, hunkCall, allowVars, statusAnswer>>
    /\ UNCHANGED <<auditVars, attVars, gatewayVars>>

\* the rest of integrate_patch (lines 167-250): the patch file is read again for its
\* content (line 170)
Finished(call, read_parse, res) ==
    /\ repo' = res.repo
    /\ lastCall' = <<[patch_id |-> call.patch_id, dry_run |-> call.dry_run,
                      human_confirmed |-> call.human_confirmed,
                      att_file |-> call.att_file, patch_file |-> read_parse,
                      read_hash |-> call.read_hash, read_parse |-> read_parse,
                      validated |-> validated[call.patch_id], before |-> repo,
                      was_integrated |-> call.patch_id \in integrated, result |-> res]>>
    /\ integrated' = IF res.ret = "True" /\ ~call.dry_run
                     THEN integrated \cup {call.patch_id}
                     ELSE integrated
    /\ integPc' = <<>>
    /\ UNCHANGED <<patchFiles, attFiles, validated, nCalls, nTampers, toolRun>>
    /\ UNCHANGED <<processed, nValidations, hunkCall, allowVars, statusAnswer>>
    /\ UNCHANGED <<auditVars, attVars, gatewayVars>>

IntegrateParseApply ==
    /\ integPc # <<>>
    /\ \E call \in {integPc[1]} :
          \E read_parse \in {patchFiles[call.patch_id]} :
             Finished(call, read_parse,
                      integrate_patch(call.att_file, IntegratorPublicKey, call.read_hash,
                                      read_parse, repo, call.patch_id, call.dry_run,
                                      call.human_confirmed))

\* the proposal whose files change behind the pipeline's back; the other proposals go
\* through the pipeline untouched
TamperedIds == {<<"aaaaaaaa", 1>>}

CleanIds == PatchIds \ TamperedIds

NextInteg ==
    \/ \E id \in TamperedIds, bytes \in SubmittedBytes : SubmitPatch(id, bytes)
    \/ \E id \in CleanIds : SubmitPatch(id, JsonBytes(PatchGrow, 0))
    \/ \E id \in TamperedIds, rep \in CheckReports : ValidatePatch(id, rep, Now)
    \/ \E id \in CleanIds : ValidatePatch(id, ApprovingReport, Now)
    \/ \E id \in TamperedIds, bytes \in TamperedBytes : TamperPatch(id, bytes)
    \/ \E id \in TamperedIds : RemovePatch(id)
    \/ \E id \in TamperedIds, o \in {"APPROVED"} : TamperAttestation(id, "outcome", o)
    \/ \E id \in TamperedIds : ForgeAttestation(id, Now)
    \/ \E id \in TamperedIds,
          content \in {<<>>, <<[kind |-> "garbage"]>>, <<[kind |-> "nonobj"]>>} :
          CorruptAttestation(id, content)
    \/ \E id \in TamperedIds, dry_run \in BOOLEAN, human_confirmed \in BOOLEAN :
          Integrate(id, dry_run, human_confirmed)
    \/ \E id \in CleanIds : Integrate(id, FALSE, FALSE)

\* what a writer on the intake side puts into a proposal file while integrate_patch
\* runs
RewrittenBytes == {JsonBytes(PatchGrow, 0), JsonBytes(PatchGood, 1), GarbageBytes}

\* the integrator beside a writer in the jail: the pipeline as above, with the two
\* reads of integrate_patch as separate steps
NextIntegConc ==
    \/ \E id \in TamperedIds : SubmitPatch(id, JsonBytes(PatchGood, 0))
    \/ \E id \in TamperedIds, rep \in CheckReports : ValidatePatch(id, rep, Now)
    \/ \E id \in TamperedIds, bytes \in RewrittenBytes : TamperPatch(id, bytes)
    \/ \E id \in TamperedIds : RemovePatch(id)
    \/ \E id \in TamperedIds, dry_run \in BOOLEAN, human_confirmed \in BOOLEAN :
          IntegrateReadHash(id, dry_run, human_confirmed)
    \/ IntegrateParseApply

(***************************************************************************)
(* jail.py: path resolution. A path string is a sequence of atoms: the     *)
(* characters "/", "\", ":", "." and the NUL byte, and runs of letters.    *)
(***************************************************************************)
MaxSegments == 9

MaxOddSegments == 1

MAX_PATH_DEPTH == 8

Nul == "\\x00"

\* str.upper() and str.lower() on an atom
Upper(atom) ==
    CASE atom \in {"con", "CoN"} -> "CON"
      [] atom \in {"git", "Git"} -> "GIT"
      [] atom = "build" -> "BUILD"
      [] atom = "txt" -> "TXT"
      [] atom = "link" -> "LINK"
      [] atom = "a" -> "A"
      [] atom = "b" -> "B"
      [] atom = "s" -> "S"
      [] OTHER -> atom

Lower(atom) ==
    CASE atom \in {"CoN", "CON"} -> "con"
      [] atom \in {"Git", "GIT"} -> "git"
      [] atom = "GitHub" -> "github"
      [] atom = "Workflows" -> "workflows"
      [] atom = "Makefile" -> "makefile"
      [] atom = "C" -> "c"
      [] OTHER -> atom

_WINDOWS_RESERVED ==
    {<<n>> : n \in {"CON", "PRN", "AUX", "NUL", "COM1", "COM2", "COM3", "COM4", "COM5",
                    "COM6", "COM7", "COM8", "COM9", "LPT1", "LPT2", "LPT3", "LPT4",
                    "LPT5", "LPT6", "LPT7", "LPT8", "LPT9"}}

FORBIDDEN_DIRS ==
    {<<".", "git">>, <<".", "env">>, <<".", "ssh">>, <<"node_modules">>, <<"__pycache__">>,
     <<".", "venv">>, <<"venv">>, <<"dist">>, <<"build">>, <<"secrets">>}

\* s.replace(a + b, ""): scanning left to right, every occurrence of the pair goes
RECURSIVE RemovePairs(_, _, _)
RemovePairs(str, a, b) ==
    IF str = <<>> THEN <<>>
    ELSE IF Len(str) >= 2 /\ str[1] = a /\ str[2] = b
         THEN RemovePairs(SubSeq(str, 3, Len(str)), a, b)
         ELSE <<str[1]>> \o RemovePairs(Tail(str), a, b)

\* s.split(sep) for a set of separator atoms: the pieces between them, empty ones too
RECURSIVE SplitFrom(_, _, _, _)
SplitFrom(str, seps, i, piece) ==
    IF i > Len(str) THEN <<piece>>
    ELSE IF str[i] \in seps
         THEN <<piece>> \o SplitFrom(str, seps, i + 1, <<>>)
         ELSE SplitFrom(str, seps, i + 1, Append(piece, str[i]))

Split(str, seps) == SplitFrom(str, seps, 1, <<>>)

\* part.split(".")[0].upper()
BaseUpper(part) ==
    LET first == Split(part, {"."})[1] IN [i \in 1..Len(first) |-> Upper(first[i])]

\* part.lower()
LowerAll(part) == [i \in 1..Len(part) |-> Lower(part[i])]

\* [p for p in parts if p and p != "."]
NonEmpty(parts) == SelectSeq(parts, LAMBDA q : q # <<>> /\ q # <<".">>)

\* line 138: ".." in non_empty
HasTraversal_never(non_empty) == FALSE

HasTraversal(non_empty) == \E i \in 1..Len(non_empty) : non_empty[i] = <<".", ".">>

\* the checks of _validate_raw on the string, on what is left of it after
\* replace(":/", "").replace(":\\", ""), and on its non-empty parts
RawChecked(raw, stripped, non_empty) ==
    IF \E i \in 1..Len(raw) : raw[i] = Nul THEN "null byte"
    ELSE IF \E i \in 1..Len(stripped) : stripped[i] = ":" THEN "alternate data stream"
    ELSE IF HasTraversal(non_empty) THEN "traversal"
    ELSE IF Len(non_empty) > MAX_PATH_DEPTH THEN "depth"
    ELSE IF \E i \in 1..Len(non_empty) : BaseUpper(non_empty[i]) \in _WINDOWS_RESERVED
         THEN "reserved name"
    ELSE IF \E i \in 1..Len(non_empty) : LowerAll(non_empty[i]) \in FORBIDDEN_DIRS
         THEN "forbidden directory"
    ELSE "ok"

\* _validate_raw (lines 118-156): "ok", or the check that raises JailViolation
\* (stripped and non_empty are computed once, as the code computes them)
_validate_raw(raw) ==
    CHOOSE checked \in
        {RawChecked(raw, stripped, non_empty) :
            stripped \in {RemovePairs(RemovePairs(raw, ":", "/"), ":", "\\")},
            non_empty \in {NonEmpty(Split(raw, {"/", "\\"}))}} : TRUE

\* the separators of pathlib on the platform
Platforms == {"posix", "nt"}

PathSeps(platform) == IF platform = "nt" THEN {"/", "\\"} ELSE {"/"}

\* self._root / relative is anchored elsewhere: relative is absolute, or names a drive
IsAnchored(relative, platform) ==
    \/ relative # <<>> /\ relative[1] \in PathSeps(platform)
    \/ /\ platform = "nt"
       /\ Len(relative) >= 2
       /\ relative[2] = ":"

\* Path.resolve(): ".", empty components and ".." are folded, symbolic links followed.
\* A location is [outside, comps]: whether it lies outside the jail root, and the
\* components below the root (or below wherever it is anchored).
RECURSIVE Walk(_, _, _, _)
Walk(comps, i, loc, links) ==
    IF i > Len(comps) THEN loc
    ELSE LET c == comps[i] IN
         IF c = <<>> \/ c = <<".">> THEN Walk(comps, i + 1, loc, links)
         ELSE IF c = <<".", ".">>
              THEN IF loc.comps = <<>>
                   THEN Walk(comps, i + 1, [loc EXCEPT !.outside = TRUE], links)
                   ELSE Walk(comps, i + 1,
                             [loc EXCEPT !.comps = SubSeq(@, 1, Len(@) - 1)], links)
         ELSE IF ~loc.outside /\ loc.comps = <<>> /\ c \in links
              THEN Walk(comps, i + 1, [outside |-> TRUE, comps |-> <<c>>], links)
              ELSE Walk(comps, i + 1, [loc EXCEPT !.comps = Append(@, c)], links)

\* (self._root / relative).resolve() (line 97); links: the names directly under the
\* jail root that are symbolic links to a place outside it
Candidate(relative, platform, links) ==
    CHOOSE loc \in
        {Walk(comps, 1, [outside |-> anchored, comps |-> <<>>], links) :
            comps \in {Split(relative, PathSeps(platform))},
            anchored \in {IsAnchored(relative, platform)}} : TRUE

\* candidate.relative_to(self._root) raises ValueError (lines 100-103, 107-114)
EscapesRoot(candidate) == candidate.outside

JailRaised(reason) == [raised |-> TRUE, reason |-> reason, path |-> <<>>]

JailReturned(candidate) == [raised |-> FALSE, reason |-> "", path |-> <<candidate>>]

\* what Jail.resolve answers for the outcome of _validate_raw and the resolved path
Resolved(checked, candidate) ==
    IF checked # "ok" THEN JailRaised(checked)
    ELSE IF EscapesRoot(candidate) THEN JailRaised("escapes")
    ELSE JailReturned(candidate)

\* Jail.resolve (lines 90-116)
Jail_resolve(relative, platform, links) ==
    CHOOSE res \in
        {Resolved(checked, candidate) :
            checked \in {_validate_raw(relative)},
            candidate \in {Candidate(relative, platform, links)}} : TRUE

\* the segments callers put into paths
PlainSegment == <<"a">>

OddSegments ==
    {<<>>, <<".">>, <<".", ".">>, <<"a", ".", ".", "b">>, <<"a", Nul>>, <<"a", ":", "s">>,
     <<"C", ":">>, <<"con">>, <<"CoN", ".", "txt">>, <<"con", "a", ".", "txt">>,
     <<".", "Git">>, <<"build">>, <<"build", ".", "txt">>, <<"link">>}

\* the jail root is a directory of its own: nothing but the gateway writes under it,
\* unless an operator has put a symbolic link there
LinkSets == {{}, {<<"link">>}}

JailPathInit ==
    /\ jailPath = [raw |-> <<>>, segs |-> <<>>, seps |-> <<>>, lead |-> <<>>, nodd |-> 0]
    /\ jailResult = <<>>

\* the caller's string starts with a separator
PathLead(sep) ==
    /\ jailPath.raw = <<>>
    /\ jailPath.lead = <<>>
    /\ jailPath.nodd < MaxOddSegments
    /\ jailPath' = [jailPath EXCEPT !.raw = <<sep>>, !.lead = <<sep>>, !.nodd = @ + 1]
    /\ jailResult' = <<>>
    /\ UNCHANGED <<auditVars, attVars, serviceVars, integVars, quotaVars, workerVars, intakeVars>>

\* the caller's string gets one more segment, after a separator when it is not the first
PathAddSegment(sep, seg) ==
    /\ Len(jailPath.segs) < MaxSegments
    /\ seg # PlainSegment => jailPath.nodd < MaxOddSegments
    /\ jailPath' = [jailPath EXCEPT
                       !.raw = IF jailPath.segs = <<>> THEN @ \o seg ELSE @ \o <<sep>> \o seg,
                       !.segs = Append(@, seg),
                       !.seps = IF jailPath.segs = <<>> THEN @ ELSE Append(@, sep),
                       !.nodd = IF seg # PlainSegment THEN @ + 1 ELSE @]
    /\ jailResult' = <<>>
    /\ UNCHANGED <<auditVars, attVars, serviceVars, integVars, quotaVars, workerVars, intakeVars>>

\* jail.resolve(raw)
JailResolve(platform, links) ==
    /\ jailResult' = <<[platform |-> platform, links |-> links,
                        result |-> Jail_resolve(jailPath.raw, platform, links)]>>
    /\ UNCHANGED <<jailPath, auditVars, attVars, serviceVars, integVars, quotaVars, workerVars, intakeVars>>

NextJail ==
    \/ \E sep \in {"/", "\\"} : PathLead(sep)
    \/ PathAddSegment("/", PlainSegment)
    \/ \E sep \in {"/", "\\"}, seg \in OddSegments : PathAddSegment(sep, seg)
    \/ \E platform \in Platforms, links \in LinkSets : JailResolve(platform, links)

(***************************************************************************)
(* jail.py: the pending patches and their quota.                           *)
(***************************************************************************)
NumPatchNames == 6

NumWorkers == 2

MAX_PATCH_BYTES == 524288

MAX_PENDING_PATCHES == 5

\* the words of the model that are 8 to 64 characters out of [a-f0-9\-]
PatchStems == {"0000000" \o ToString(i) : i \in 1..NumPatchNames}

JsonName(stem) == <<stem, ".", "json">>

\* re.fullmatch(r"[a-f0-9\-]{8,64}\.json", filename) (line 213)
IsPatchName(filename) ==
    /\ Len(filename) = 3
    /\ filename[1] \in PatchStems
    /\ filename[2] = "."
    /\ filename[3] = "json"

\* count_pending_patches (lines 191-193): the *.json files of patches/
count_pending_patches_none(dir) == 0

count_pending_patches(dir) == Cardinality(DOMAIN dir)

\* line 200
QuotaFull_never(count) == FALSE

QuotaFull(count) == count >= MAX_PENDING_PATCHES

JailOutcome(raised, dir, archive) == [raised |-> raised, dir |-> dir, archive |-> archive]

\* write_patch after the quota check (lines 205-225): size, file name, resolve, write
WriteChecked(dir, archive, filename, content, platform, links) ==
    IF content.len > MAX_PATCH_BYTES THEN JailOutcome("PermissionError", dir, archive)
    ELSE IF ~IsPatchName(filename) THEN JailOutcome("JailViolation", dir, archive)
    ELSE IF Jail_resolve(<<"patches", "/">> \o filename, platform, links).raised
         THEN JailOutcome("JailViolation", dir, archive)
         ELSE JailOutcome("", Put(dir, filename, content), archive)

\* Jail.write_patch (lines 195-225): the exception raised ("" when it returns) and
\* the directories afterwards
write_patch(dir, archive, filename, content, platform, links) ==
    IF QuotaFull(count_pending_patches(dir))
    THEN JailOutcome("PatchQuotaExceeded", dir, archive)
    ELSE WriteChecked(dir, archive, filename, content, platform, links)

\* the name of an archived patch (line 242)
ArchiveName(patch_id, reason) == <<patch_id, "__", reason, ".", "json">>

archive_patch_unlinks(dir, archive, patch_id, reason, platform, links) ==
    JailOutcome("", Without(dir, JsonName(patch_id)), archive)

\* Jail.archive_patch (lines 236-244): patches/<id>.json, if there, moves to
\* archive/<id>__<reason>.json. src.rename(dst) replaces a dst that is there on
\* POSIX and raises FileExistsError on Windows
archive_patch(dir, archive, patch_id, reason, platform, links) ==
    IF Jail_resolve(<<"patches", "/">> \o JsonName(patch_id), platform, links).raised
    THEN JailOutcome("JailViolation", dir, archive)
    ELSE IF JsonName(patch_id) \notin DOMAIN dir THEN JailOutcome("", dir, archive)
    ELSE IF platform = "nt" /\ ArchiveName(patch_id, reason) \in DOMAIN archive
    THEN JailOutcome("FileExistsError", dir, archive)
    ELSE JailOutcome("", Without(dir, JsonName(patch_id)),
                     Put(archive, ArchiveName(patch_id, reason), dir[JsonName(patch_id)]))

Content(len, data) == [len |-> len, data |-> data]

\* file names and contents callers pass to write_patch
PatchNames == {JsonName(stem) : stem \in PatchStems}

BadNames == {<<"patch", ".", "json">>, <<"00000001", ".", "txt">>}

PatchContents == {Content(MAX_PATCH_BYTES, "x"), Content(MAX_PATCH_BYTES + 1, "x")}

PatchesLinkSets == {{}, {<<"patches">>}}

QuotaInit ==
    /\ patchesDir = <<>>
    /\ archiveDir = <<>>
    /\ jailCall = <<>>

JailCalled(op, name, content, links, out) ==
    /\ patchesDir' = out.dir
    /\ archiveDir' = out.archive
    /\ jailCall' = <<[op |-> op, name |-> name, content |-> content, links |-> links,
                      before |-> patchesDir, raised |-> out.raised]>>
    /\ UNCHANGED <<auditVars, attVars, serviceVars, integVars, jailVars, workerVars, intakeVars>>

\* jail.write_patch(filename, content)
WritePatch(filename, content, platform, links) ==
    JailCalled("write_patch", filename, content, links,
               write_patch(patchesDir, archiveDir, filename, content, platform, links))

\* jail.archive_patch(patch_id, reason)
ArchivePatch(patch_id, reason, platform, links) ==
    JailCalled("archive_patch", JsonName(patch_id), Content(0, ""), links,
               archive_patch(patchesDir, archiveDir, patch_id, reason, platform, links))

\* the patches an operator archives
ArchivedStems == {"00000001", "00000002"}

NextQuota ==
    \/ \E filename \in PatchNames, content \in PatchContents :
          WritePatch(filename, content, "posix", {})
    \/ \E filename \in BadNames :
          WritePatch(filename, Content(MAX_PATCH_BYTES, "x"), "posix", {})
    \/ \E platform \in Platforms, links \in PatchesLinkSets :
          WritePatch(JsonName("00000001"), Content(MAX_PATCH_BYTES, "x"), platform, links)
    \/ \E patch_id \in ArchivedStems, links \in PatchesLinkSets :
          ArchivePatch(patch_id, "processed", "posix", links)

(***************************************************************************)
(* patch_schema.py: the schema of a proposal.                              *)
(***************************************************************************)
MAX_FILES_PER_PATCH == 5

MAX_HUNKS_PER_FILE == 20

MAX_LINES_PER_HUNK == 100

MAX_LINE_LENGTH == 2000

MAX_RATIONALE_LENGTH == 500

\* JSON values that are no strings: an absent field, a number, null
NotStrings == {"#missing", "#7", "#null"}

\* the texts of the model that are too long to write out: a line of 2000 characters,
\* one of 2001, a text of 501, and a text of 11 accented letters after one plain one
LongTexts == {"#line-2000", "#line-2001", "#text-501", "#accents-12"}

\* len(text)
TextLen(text) ==
    CASE text = "#line-2000" -> 2000
      [] text = "#line-2001" -> 2001
      [] text = "#text-501" -> 501
      [] text = "#accents-12" -> 12
      [] OTHER -> Len(text)

\* len(re.sub(r"[^\x20-\x7E\t\n]", "", text)) (line 222)
CleanedLen(text) == IF text = "#accents-12" THEN 1 ELSE TextLen(text)

\* the characters of the paths of the model
PathChars(path) ==
    CASE path = "a.py" -> <<"a", ".", "py">>
      [] path = "b.py" -> <<"b", ".", "py">>
      [] path = "missing.py" -> <<"missing", ".", "py">>
      [] path = "../outside.py" -> <<".", ".", "/", "outside", ".", "py">>
      [] path = "tools/example.py" -> <<"tools", "/", "example", ".", "py">>
      [] path = ".github/workflows/ci.yml" ->
             <<".", "github", "/", "workflows", "/", "ci", ".", "yml">>
      [] path = ".github//workflows/ci.yml" ->
             <<".", "github", "/", "/", "workflows", "/", "ci", ".", "yml">>
      [] path = ".github/./workflows/ci.yml" ->
             <<".", "github", "/", ".", "/", "workflows", "/", "ci", ".", "yml">>
      [] path = "conf/.env/app.yml" -> <<"conf", "/", ".", "env", "/", "app", ".", "yml">>
      [] path = "x\\.GitHub\\Workflows\\ci.yml" ->
             <<"x", "\\", ".", "GitHub", "\\", "Workflows", "\\", "ci", ".", "yml">>
      [] path = "deploy/server.key" -> <<"deploy", "/", "server", ".", "key">>
      [] path = "security/jail.py" -> <<"security", "/", "jail", ".", "py">>
      [] path = "setup.py" -> <<"setup", ".", "py">>
      [] path = "requirements.txt" -> <<"requirements", ".", "txt">>
      [] path = "a.exe" -> <<"a", ".", "exe">>
      [] path = "a:s.py" -> <<"a", ":", "s", ".", "py">>
      [] path = "Makefile" -> <<"Makefile">>
      [] OTHER -> <<>>

\* pattern.search(path) for a pattern that is a run of characters, each out of a set;
\* anchored: the run starts the path or follows one of seps; atend: it ends the path
Matches(chars, pat, anchored, seps, atend) ==
    \E i \in 1..Len(chars) :
        /\ i + Len(pat) - 1 <= Len(chars)
        /\ anchored => (i = 1 \/ chars[i - 1] \in seps)
        /\ atend => i + Len(pat) - 1 = Len(chars)
        /\ \A k \in 1..Len(pat) : Lower(chars[i + k - 1]) \in pat[k]

\* PROTECTED_PATH_PATTERNS (lines 65-77), on the words of the model
PROTECTED_PATH_PATTERNS ==
    {[pat |-> <<{"."}, {"github"}, {"/"}>>, anchored |-> TRUE, atend |-> FALSE],
     [pat |-> <<{"workflow", "workflows"}, {"/"}>>, anchored |-> TRUE, atend |-> FALSE],
     [pat |-> <<{"security"}, {"/"}>>, anchored |-> TRUE, atend |-> FALSE],
     [pat |-> <<{"auth", "docker", "deploy", "infra"}>>, anchored |-> TRUE, atend |-> FALSE],
     [pat |-> <<{"."}, {"env", "pem", "key", "crt", "p12", "pfx"}>>,
      anchored |-> FALSE, atend |-> TRUE],
     [pat |-> <<{"secret", "secrets"}, {"/"}>>, anchored |-> TRUE, atend |-> FALSE],
     [pat |-> <<{"requirements", "package-lock", "pyproject"}>>,
      anchored |-> FALSE, atend |-> FALSE],
     [pat |-> <<{"go"}, {"."}, {"sum"}>>, anchored |-> FALSE, atend |-> FALSE],
     [pat |-> <<{"cargo"}, {"."}, {"lock"}>>, anchored |-> FALSE, atend |-> FALSE],
     [pat |-> <<{"setup"}, {"."}, {"py", "cfg"}>>, anchored |-> FALSE, atend |-> FALSE]}

\* TargetFile.is_protected (lines 160-162)
is_protected(path) ==
    \E p \in PROTECTED_PATH_PATTERNS :
        Matches(PathChars(path), p.pat, p.anchored, {"/"}, p.atend)

ALLOWED_TARGET_EXTENSIONS ==
    {"py", "ts", "tsx", "js", "jsx", "go", "rs", "c", "cpp", "h", "hpp", "json", "yaml",
     "yml", "toml", "sh", "bash", "cfg", "ini", "conf", "sql", "graphql", "proto"}

\* TargetFile.validate_path (lines 139-158) and the length limits of line 136
validate_path(path) ==
    LET v == PathChars(path)
        dots == {i \in 1..Len(v) : v[i] = "."}
        last == CHOOSE i \in dots : \A j \in dots : j <= i
        stripped == RemovePairs(RemovePairs(v, ":", "/"), ":", "\\")
    IN /\ path \notin NotStrings
       /\ TextLen(path) >= 1
       /\ TextLen(path) <= 512
       /\ ~HasTraversal(Split(v, {"/", "\\"}))
       /\ \A i \in 1..Len(v) : v[i] # Nul
       /\ \A i \in 1..Len(stripped) : stripped[i] # ":"
       /\ dots # {}
       /\ last = Len(v) - 1
       /\ Lower(v[Len(v)]) \in ALLOWED_TARGET_EXTENSIONS

\* Hunk (lines 93-118)
HunkValid(hunk) ==
    /\ {"start_line", "end_line", "old_lines", "new_lines"} \subseteq DOMAIN hunk
    /\ hunk.start_line >= 1
    /\ hunk.end_line >= 1
    /\ Len(hunk.old_lines) <= MAX_LINES_PER_HUNK
    /\ Len(hunk.new_lines) <= MAX_LINES_PER_HUNK
    /\ hunk.end_line >= hunk.start_line
    /\ \A i \in 1..Len(hunk.old_lines) : TextLen(hunk.old_lines[i]) <= MAX_LINE_LENGTH
    /\ \A i \in 1..Len(hunk.new_lines) : TextLen(hunk.new_lines[i]) <= MAX_LINE_LENGTH

\* TargetFile (lines 133-158)
TargetFileValid(f) ==
    /\ {"path", "hunks"} \subseteq DOMAIN f
    /\ validate_path(f.path)
    /\ Len(f.hunks) >= 1
    /\ Len(f.hunks) <= MAX_HUNKS_PER_FILE
    /\ \A i \in 1..Len(f.hunks) : HunkValid(f.hunks[i])

VALID_RISK_LEVELS_any == {"low", "medium", "high"}

VALID_RISK_LEVELS == {"low", "medium"}

\* the fields of PatchProposal (lines 165-225) that model_validate reports in error
SchemaErrors(raw) ==
    LET s(f) == Get(raw, f, "#missing")
        files == Get(raw, "target_files", <<>>)
    IN {f \in {"schema_version"} : s(f) \in NotStrings \/ s(f) \notin {"1.0"}}
       \cup {f \in {"change_type"} :
                \/ s(f) \in NotStrings
                \/ s(f) \notin {"code_modification", "test_addition", "refactor",
                                "config_change"}}
       \cup {f \in {"risk_level"} : s(f) \in NotStrings \/ s(f) \notin VALID_RISK_LEVELS}
       \cup {f \in {"rationale"} :
                \/ s(f) \in NotStrings
                \/ TextLen(s(f)) < 10
                \/ TextLen(s(f)) > MAX_RATIONALE_LENGTH
                \/ CleanedLen(s(f)) < 10}
       \cup {f \in {"target_files"} :
                \/ Len(files) < 1
                \/ Len(files) > MAX_FILES_PER_PATCH
                \/ \E i \in 1..Len(files) : ~TargetFileValid(files[i])}
       \cup {f \in {"override_reason"} :
                /\ f \in DOMAIN raw
                /\ s(f) # "#null"
                /\ s(f) \in NotStrings \/ TextLen(s(f)) > 500}

\* validate_proposal (lines 246-287); raw is what json.loads gave: a dict, or not
validate_proposal(raw) ==
    IF raw.type # "dict"
    THEN [valid |-> FALSE, errors |-> {""}, requires_manual_override |-> FALSE,
          protected_paths |-> <<>>]
    ELSE IF SchemaErrors(raw.val) # {}
    THEN [valid |-> FALSE, errors |-> SchemaErrors(raw.val),
          requires_manual_override |-> FALSE, protected_paths |-> <<>>]
    ELSE LET files == raw.val.target_files
             paths == [i \in 1..Len(files) |-> files[i].path]
             protected == SelectSeq(paths, is_protected)
         IN [valid |-> TRUE, errors |-> {}, requires_manual_override |-> protected # <<>>,
             protected_paths |-> protected]

(***************************************************************************)
(* Jail.write_patch called by several workers on one jail directory: the   *)
(* count of the pending files and the write are two file-system accesses.  *)
(***************************************************************************)
Workers == 1..NumWorkers

\* uuid4 names: no two workers ever draw the same one
WorkerNames(w) == {JsonName("0000000" \o ToString(i)) : i \in {j \in 1..NumPatchNames : j % NumWorkers = w - 1}}

WorkerInit ==
    /\ wpc = [w \in Workers |-> "idle"]
    /\ wloc = [w \in Workers |-> [filename |-> <<>>, count |-> 0, raised |-> ""]]
    /\ wrace = FALSE

\* a worker enters write_patch(filename, content)
WorkerCall(w, filename) ==
    /\ wpc[w] = "idle"
    /\ filename \notin DOMAIN patchesDir
    /\ wpc' = [wpc EXCEPT ![w] = "check"]
    /\ wloc' = [wloc EXCEPT ![w] = [filename |-> filename, count |-> 0, raised |-> ""]]
    /\ UNCHANGED <<wrace, auditVars, attVars, serviceVars, integVars, jailVars, quotaVars, intakeVars>>

\* line 200: count the pending files, raise PatchQuotaExceeded at the quota
WorkerCheckQuota(w) ==
    /\ wpc[w] = "check"
    /\ LET count == count_pending_patches(patchesDir) IN
       IF QuotaFull(count)
       THEN /\ wpc' = [wpc EXCEPT ![w] = "idle"]
            /\ wloc' = [wloc EXCEPT ![w].count = count, ![w].raised = "PatchQuotaExceeded"]
            /\ wrace' = wrace
       ELSE /\ wpc' = [wpc EXCEPT ![w] = "write"]
            /\ wloc' = [wloc EXCEPT ![w].count = count]
            /\ wrace' = (wrace \/ \E v \in Workers \ {w} : wpc[v] = "write")
    /\ UNCHANGED <<auditVars, attVars, serviceVars, integVars, jailVars, quotaVars, intakeVars>>

\* lines 205-225: the remaining checks and path.write_bytes(content)
WorkerWrite(w) ==
    /\ wpc[w] = "write"
    /\ LET out == WriteChecked(patchesDir, archiveDir, wloc[w].filename,
                               Content(MAX_PATCH_BYTES, "x"), "posix", {})
       IN /\ patchesDir' = out.dir
          /\ wloc' = [wloc EXCEPT ![w].raised = out.raised]
    /\ wpc' = [wpc EXCEPT ![w] = "idle"]
    /\ UNCHANGED <<wrace, archiveDir, jailCall, auditVars, attVars, serviceVars, integVars, jailVars, intakeVars>>

NextQuotaConc ==
    \/ \E w \in Workers, filename \in PatchNames :
          filename \in WorkerNames(w) /\ WorkerCall(w, filename)
    \/ \E w \in Workers : WorkerCheckQuota(w)
    \/ \E w \in Workers : WorkerWrite(w)

(***************************************************************************)
(* patch_router.py: POST /propose. The request has passed the allowlist,   *)
(* the bearer-token check and the global rate limit of main.py; the entry  *)
(* request_audit_middleware adds after the response is left out.           *)
(***************************************************************************)
MaxRequests == 6

MaxOddRequests == 1

MaxTicks == 1

PATCH_RATE_LIMIT_PER_HOUR == 5

RateWindow == 3600

FullHunk(s, e, old, new) == [start_line |-> s, end_line |-> e, old_lines |-> old, new_lines |-> new]

Proposal(risk, rationale, files) ==
    [schema_version |-> "1.0", change_type |-> "code_modification", risk_level |-> risk,
     rationale |-> rationale, target_files |-> files]

\* the plain proposal: one hunk in one unprotected source file
ProposalLow ==
    Proposal("low", "rename the helper",
             <<OneFile("tools/example.py", FullHunk(1, 1, <<"l1">>, <<"x">>))>>)

\* a medium-risk proposal for a protected path that brings a _meta of its own
ProposalMedium ==
    Put(Proposal("medium", "tighten the jail",
                 <<OneFile("security/jail.py", FullHunk(1, 1, <<"l1">>, <<"x">>))>>),
        "_meta", [status |-> "approved", requires_manual_override |-> FALSE])

\* 3 hunks of 100 lines of 2000 characters: within every limit of the schema
ProposalBig ==
    Proposal("low", "rewrite the module",
             <<[path |-> "a.py",
                hunks |-> [h \in 1..3 |->
                              FullHunk(1, 1, <<>>, [i \in 1..100 |-> "#line-2000"])]]>>)

\* proposals the schema refuses for something other than the risk level
BadProposals ==
    {Put(ProposalLow, "rationale", rat) : rat \in {"rename", "#accents-12"}}
    \cup {Put(ProposalLow, "target_files", files) :
            files \in {<<>>,
                       <<OneFile("../outside.py", FullHunk(1, 1, <<"l1">>, <<"x">>))>>,
                       <<OneFile("a.exe", FullHunk(1, 1, <<"l1">>, <<"x">>))>>,
                       <<OneFile("a.py", FullHunk(2, 1, <<>>, <<"x">>))>>,
                       <<OneFile("a.py", FullHunk(1, 1, <<>>, <<"#line-2001">>))>>}}

\* proposals with another risk level than low or medium, other fields good or bad
RiskyProposals ==
    {Put(base, "risk_level", risk) :
        base \in {ProposalLow, ProposalMedium}, risk \in {"high", "LOW", "#7"}}
    \cup {Without(ProposalLow, "risk_level"), Put(Put(ProposalLow, "rationale", "rename"), "risk_level", "high")}

\* request bodies that are no JSON object
OddBytes == {GarbageBytes, [kind |-> "notutf8"], [kind |-> "jsonlist"]}

OddBodies ==
    OddBytes \cup {JsonBytes(d, 0) : d \in {ProposalMedium, ProposalBig} \cup BadProposals \cup RiskyProposals}

PlainBody == JsonBytes(ProposalLow, 0)

ClientIps == {"10.0.0.1", "10.0.0.2"}

IntakeInit ==
    /\ _patch_rate = <<>>
    /\ _patch_meta = <<>>
    /\ clock = 0
    /\ response = <<>>
    /\ nRequests = 0
    /\ nOddRequests = 0

\* _check_patch_rate (lines 85-101): whether it raises the 429, and _patch_rate after
_check_patch_rate(rate, src_ip, now) ==
    LET timestamps == SelectSeq(Get(rate, src_ip, <<>>), LAMBDA t : now - t < RateWindow)
    IN IF Len(timestamps) >= PATCH_RATE_LIMIT_PER_HOUR
       THEN [raised |-> TRUE, rate |-> rate]
       ELSE [raised |-> FALSE, rate |-> Put(rate, src_ip, Append(timestamps, now))]

\* json.loads(body_bytes) (line 146)
json_loads(body) ==
    CASE body.kind = "json" -> [raised |-> "", type |-> "dict", val |-> body.data]
      [] body.kind = "jsonlist" -> [raised |-> "", type |-> "list", val |-> <<>>]
      [] body.kind = "notutf8" -> [raised |-> "UnicodeDecodeError", type |-> "", val |-> <<>>]
      [] OTHER -> [raised |-> "JSONDecodeError", type |-> "", val |-> <<>>]

\* sum(ns): each value that occurs, times how often it occurs
RECURSIVE SumValues(_, _)
SumValues(ns, vals) ==
    IF vals = {} THEN 0
    ELSE LET v == CHOOSE x \in vals : TRUE
         IN v * Cardinality({i \in 1..Len(ns) : ns[i] = v}) + SumValues(ns, vals \ {v})

SumSeq(ns) == SumValues(ns, {ns[i] : i \in 1..Len(ns)})

\* len(json.dumps(enriched, ensure_ascii=True, indent=2).encode("utf-8")) (line 195):
\* every line of a hunk on a text line of its own, and the rest of the document
SerializedLen(enriched) ==
    LET LinesLen(lines) == SumSeq([i \in 1..Len(lines) |-> TextLen(lines[i]) + 14])
        HunkLen(h) == 80 + LinesLen(Get(h, "old_lines", <<>>)) + LinesLen(Get(h, "new_lines", <<>>))
        FileLen(f) == 40 + SumSeq([i \in 1..Len(f.hunks) |-> HunkLen(f.hunks[i])])
    IN 512 + SumSeq([i \in 1..Len(enriched.target_files) |-> FileLen(enriched.target_files[i])])

\* what the handler did: the status and detail of the answer ("500" for an exception
\* nobody catches), the audit entry it appended, the directory and the limiter after
Answer(status, detail, audited, dir, rate) ==
    [status |-> status, detail |-> detail, audited |-> audited, dir |-> dir, rate |-> rate]

Audited(event, payload_hash, outcome, detail) ==
    <<[event |-> event, payload_hash |-> payload_hash, outcome |-> outcome, detail |-> detail]>>

\* the answers of propose_patch (lines 119-261) once the limiter, json.loads,
\* validate_proposal and write_patch have said what they say
ProposeAnswer(payload_hash, limited, parsed, result, wrote, dir, rate) ==
    IF limited.raised
    THEN Answer(429, "rate limit", Audited("PATCH_RATE_LIMITED", "N/A", "DENIED",
                                           <<"rate limit">>), dir, rate)
    ELSE IF parsed.raised = "JSONDecodeError"
    THEN Answer(400, "invalid JSON", Audited("PATCH_INVALID_JSON", payload_hash, "DENIED",
                                             <<"invalid JSON">>), dir, limited.rate)
    ELSE IF parsed.raised # ""
    THEN Answer(500, parsed.raised, <<>>, dir, limited.rate)
    ELSE IF ~result.valid
    THEN Answer(422, result.errors, Audited("PATCH_SCHEMA_INVALID", payload_hash, "DENIED",
                                            <<"schema errors">>), dir, limited.rate)
    ELSE IF wrote.raised = "PatchQuotaExceeded"
    THEN Answer(429, "quota", Audited("PATCH_QUOTA_EXCEEDED", payload_hash, "DENIED",
                                      <<"quota">>), dir, limited.rate)
    ELSE IF wrote.raised = "JailViolation"
    THEN Answer(403, "jail violation", Audited("PATCH_JAIL_VIOLATION", payload_hash,
                                               "DENIED", <<"jail violation">>),
                dir, limited.rate)
    ELSE IF wrote.raised # ""
    THEN Answer(500, wrote.raised, <<>>, dir, limited.rate)
    ELSE Answer(200, "pending", Audited("PATCH_PROPOSED", payload_hash, "PENDING",
                                        <<"patch_id">>), wrote.dir, limited.rate)

\* lines 182-194: the document written, raw with the _meta of the intake
\* (schema_warnings, which nothing reads afterwards, left out)
Enriched(raw, patch_id, now, src_ip, payload_hash, result) ==
    Put(raw, "_meta",
        [patch_id |-> patch_id, created_at |-> now, src_ip |-> src_ip,
         payload_hash |-> payload_hash,
         requires_manual_override |-> result.requires_manual_override,
         protected_paths |-> result.protected_paths, status |-> "pending"])

\* lines 195-199: enriched_bytes and jail.write_patch, for a valid proposal
WriteEnriched(enriched, result, patch_id, dir, archive, links) ==
    IF ~result.valid THEN JailOutcome("", dir, archive)
    ELSE write_patch(dir, archive, JsonName(patch_id),
                     Content(SerializedLen(enriched), JsonBytes(enriched, 2)), "posix", links)

\* lines 141-261: the handler after the limiter, json.loads and validate_proposal
ProposeParsed(src_ip, body, patch_id, now, rate, dir, archive, links, limited, parsed, result) ==
    ProposeAnswer(sha256(body), limited, parsed, result,
                  WriteEnriched(Enriched(parsed.val, patch_id, now, src_ip, sha256(body), result),
                                result, patch_id, dir, archive, links),
                  dir, rate)

\* propose_patch (lines 119-261)
propose_patch(src_ip, body, patch_id, now, rate, dir, archive, links) ==
    ProposeParsed(src_ip, body, patch_id, now, rate, dir, archive, links,
                  _check_patch_rate(rate, src_ip, now), json_loads(body),
                  validate_proposal(json_loads(body)))

\* what a request leaves behind: the limiter, the directory, the audit entry
\* audit.append(...) wrote, and the answer
Answered(src_ip, body, links, patch_id, ans) ==
    /\ _patch_rate' = ans.rate
    /\ patchesDir' = ans.dir
    /\ _patch_meta' = IF ans.status # 200 THEN _patch_meta
                      ELSE Put(_patch_meta, patch_id,
                               [created_at |-> clock, src_ip |-> src_ip,
                                payload_hash |-> sha256(body),
                                requires_manual_override |->
                                    ans.dir[JsonName(patch_id)].data.data._meta
                                       .requires_manual_override,
                                status |-> "pending"])
    /\ IF ans.audited = <<>>
       THEN UNCHANGED <<logFile, inst, lineWho>>
       ELSE LET e == ans.audited[1]
                entry == MakeEntry(inst.seq + 1, ToString(clock), e.event, src_ip,
                                   e.payload_hash, "ah0", e.outcome,
                                   safe_detail(e.detail), inst.prev_hash)
            IN /\ logFile' = Append(logFile, JsonLine(entry))
               /\ inst' = [seq |-> inst.seq + 1, prev_hash |-> entry.entry_hash]
               /\ lineWho' = Append(lineWho, <<instId, 0>>)
    /\ chainVerdict' = <<>>
    /\ response' = <<[src_ip |-> src_ip, body |-> body, links |-> links,
                      patch_id |-> patch_id, status |-> ans.status,
                      detail |-> ans.detail, audited |-> ans.audited,
                      before |-> patchesDir, logged |-> Len(logFile)]>>

\* one request to POST /propose: the handler, its audit.append(...) included
ProposePatch(src_ip, body, links) ==
    /\ nRequests < MaxRequests
    /\ (body # PlainBody \/ links # {}) => nOddRequests < MaxOddRequests
    /\ Answered(src_ip, body, links, "0000000" \o ToString(nRequests + 1),
                propose_patch(src_ip, body, "0000000" \o ToString(nRequests + 1), clock,
                              _patch_rate, patchesDir, archiveDir, links))
    /\ nRequests' = nRequests + 1
    /\ nOddRequests' = IF body # PlainBody \/ links # {} THEN nOddRequests + 1 ELSE nOddRequests
    /\ UNCHANGED <<clock, archiveDir, jailCall, instId, tamper, lock, tpc, tloc, overlap>>
    /\ UNCHANGED <<attVars, serviceVars, integVars, jailVars, workerVars>>

\* an hour passes. Time matters to the handler through the window of the limiter
\* alone: the clock is moved once some client has used up its allowance.
Tick ==
    /\ clock < MaxTicks * RateWindow
    /\ \E ip \in DOMAIN _patch_rate : Len(_patch_rate[ip]) >= PATCH_RATE_LIMIT_PER_HOUR
    /\ clock' = clock + RateWindow
    /\ UNCHANGED <<_patch_rate, _patch_meta, response, nRequests, nOddRequests>>
    /\ UNCHANGED <<auditVars, attVars, serviceVars, integVars, jailVars, quotaVars, workerVars>>

NextIntake ==
    \/ \E src_ip \in ClientIps : ProposePatch(src_ip, PlainBody, {})
    \/ \E body \in OddBodies : ProposePatch("10.0.0.1", body, {})
    \/ ProposePatch("10.0.0.1", PlainBody, {<<"patches">>})
    \/ Tick

(***************************************************************************)
(* structural_checker.py, sast_runner.py and validate_patch on a proposal  *)
(* of the jail; then the three phases end to end.                          *)
(***************************************************************************)
MAX_TOTAL_LINES_CHANGED == 500

MAX_HUNK_LINES == 100

MAX_FILES == 5

\* HARD_BLOCKED_PATTERNS (lines 33-37), on the words of the model; the second pattern
\* ends in ($|[\\/]) and is written as two
HARD_BLOCKED_PATTERNS ==
    {[pat |-> <<{"."}, {"github"}, {"/", "\\"}, {"workflows"}, {"/", "\\"}>>,
      anchored |-> TRUE, atend |-> FALSE],
     [pat |-> <<{"."}, {"env"}>>, anchored |-> TRUE, atend |-> TRUE],
     [pat |-> <<{"."}, {"env"}, {"/", "\\"}>>, anchored |-> TRUE, atend |-> FALSE],
     [pat |-> <<{"."}, {"pem", "key", "crt", "p12", "pfx", "gpg", "asc"}>>,
      anchored |-> FALSE, atend |-> TRUE]}

\* lines 93-100: some pattern of HARD_BLOCKED_PATTERNS is found in the path
HardBlocked(path) ==
    \E p \in HARD_BLOCKED_PATTERNS :
        Matches(PathChars(path), p.pat, p.anchored, {"/", "\\"}, p.atend)

\* DEPENDENCY_FILES (lines 25-30), on the words of the model
DEPENDENCY_FILES ==
    {<<{"requirements"}, {"."}, {"txt"}>>, <<{"package-lock"}, {"."}, {"json"}>>,
     <<{"yarn", "cargo", "poetry"}, {"."}, {"lock"}>>, <<{"go"}, {"."}, {"sum"}>>,
     <<{"pyproject"}, {"."}, {"toml"}>>, <<{"setup"}, {"."}, {"py", "cfg"}>>}

\* check_structure (lines 55-161): passed, hard_blocked, dependency_gate_triggered
\* and the kinds of the errors
check_structure(patch_data) ==
    LET target_files == Get(patch_data, "target_files", <<>>)
        path(i) == Get(target_files[i], "path", "")
        hunks(i) == Get(target_files[i], "hunks", <<>>)
        named == {i \in 1..Len(target_files) : path(i) # ""}
        hunk_size(h) == Max(Len(Get(h, "old_lines", <<>>)), Len(Get(h, "new_lines", <<>>)))
        file_lines(i) == IF i \in named
                         THEN SumSeq([k \in 1..Len(hunks(i)) |-> hunk_size(hunks(i)[k])])
                         ELSE 0
        total_lines == SumSeq([i \in 1..Len(target_files) |-> file_lines(i)])
        hard_blocked == \E i \in named : HardBlocked(path(i))
        dep_gate == \E i \in named : \E pat \in DEPENDENCY_FILES :
                        Matches(PathChars(path(i)), pat, FALSE, {}, TRUE)
        errors ==
            {e \in {"too many files"} : Len(target_files) > MAX_FILES}
            \cup {e \in {"no path"} : named # 1..Len(target_files)}
            \cup {e \in {"hard block"} : hard_blocked}
            \cup {e \in {"no hunks"} : \E i \in named : hunks(i) = <<>>}
            \cup {e \in {"start_line"} :
                    \E i \in named : \E k \in 1..Len(hunks(i)) :
                        Get(hunks(i)[k], "start_line", 0) < 1}
            \cup {e \in {"end_line"} :
                    \E i \in named : \E k \in 1..Len(hunks(i)) :
                        Get(hunks(i)[k], "end_line", 0) < Get(hunks(i)[k], "start_line", 0)}
            \cup {e \in {"hunk size"} :
                    \E i \in named : \E k \in 1..Len(hunks(i)) :
                        hunk_size(hunks(i)[k]) > MAX_HUNK_LINES}
            \cup {e \in {"patch size"} : total_lines > MAX_TOTAL_LINES_CHANGED}
    IN IF target_files = <<>>
       THEN [passed |-> FALSE, errors |-> {"no target files"},
             dependency_gate_triggered |-> FALSE, hard_blocked |-> FALSE]
       ELSE [passed |-> errors = {}, errors |-> errors,
             dependency_gate_triggered |-> dep_gate, hard_blocked |-> hard_blocked]

SAST_TOOLS == {"bandit", "semgrep", "gitleaks"}

\* SASTResult.status (line 33)
ToolStatuses == {"PASS", "FAIL", "SKIP", "ERROR"}

\* run_sast (lines 52-114). which: the tools shutil.which finds; ran: what the runner
\* of each returns. The result: every tool's status and the overall one
run_sast(which, ran) ==
    LET results == [t \in SAST_TOOLS |-> IF t \in which THEN ran[t] ELSE "SKIP"]
        failed == {t \in SAST_TOOLS : results[t] = "FAIL"}
        all_skipped == \A t \in SAST_TOOLS : results[t] \in {"SKIP", "PASS"}
    IN [results |-> results,
        overall |-> IF failed # {} THEN "FAIL"
                    ELSE IF all_skipped /\ ~\E t \in SAST_TOOLS : results[t] = "PASS"
                    THEN "SKIP"
                    ELSE "PASS"]

\* validate_patch (lines 85-190) on the bytes of the proposal file: the checks and
\* the outcome it signs
validate_patch(bytes, which, ran) ==
    LET patch_data == bytes.data
        struct_result == check_structure(patch_data)
        sast_result == run_sast(which, ran)
        meta == Get(patch_data, "_meta", <<>>)
    IN Verdict(bytes, [passed |-> struct_result.passed,
                       hard_blocked |-> struct_result.hard_blocked,
                       sast |-> sast_result.overall,
                       gitleaks |-> sast_result.results["gitleaks"],
                       dependency_gate_triggered |-> struct_result.dependency_gate_triggered,
                       requires_manual_override |->
                           Get(meta, "requires_manual_override", FALSE)])

MaxPipelineRequests == 1

MaxAttested == 1

MaxPipelineCalls == 1

\* a patch ID that starts with the 8 characters of stem
PatchIdOf(stem) == <<stem, 0>>

PipelineStems == {"0000000" \o ToString(i) : i \in 1..MaxPipelineRequests}

\* the bytes of patches/<stem>.json, <<>> when there is no such file
PendingBytes(stem) ==
    IF JsonName(stem) \in DOMAIN patchesDir THEN <<patchesDir[JsonName(stem)].data>> ELSE <<>>

LowProposal(path, old, new) ==
    Proposal("low", "rename the helper", <<OneFile(path, FullHunk(1, 1, old, new))>>)

\* a proposal that writes the text the file already has
ProposalNoop == LowProposal("tools/example.py", <<"l1">>, <<"l1">>)

\* proposals for the CI workflow and for an .env directory, spelt in several ways
BlockedProposals ==
    {LowProposal(path, <<"on: push">>, <<"on: pull_request_target">>) :
        path \in {".github/workflows/ci.yml", "x\\.GitHub\\Workflows\\ci.yml",
                  "conf/.env/app.yml", ".github//workflows/ci.yml",
                  ".github/./workflows/ci.yml"}}

\* single-hunk low-risk proposals for unprotected files of the repository
PlainProposals ==
    {Proposal("low", "rename the helper", <<OneFile(path, hunk)>>) :
        path \in {"tools/example.py", "a.py"},
        hunk \in {FullHunk(1, 1, <<"l1">>, <<"x", "y">>), FullHunk(2, 2, <<"l2">>, <<>>),
                  FullHunk(1, 2, <<"l1", "l2">>, <<"z">>)}}

PipelineBodies ==
    {JsonBytes(d, 0) :
        d \in {ProposalNoop, ProposalMedium, LowProposal("setup.py", <<>>, <<"x">>),
               LowProposal("requirements.txt", <<"requests">>, <<"requests==2.0">>)}
              \cup BlockedProposals \cup PlainProposals}

\* the statuses the runner of a tool returns (lines 117-244): _run_gitleaks has no SKIP
RunnerStatuses(tool) == IF tool = "gitleaks" THEN ToolStatuses \ {"SKIP"} ELSE ToolStatuses

\* what the tools do in a run of the validator: which of them are installed, and the
\* status each installed one ends in
ToolRuns ==
    UNION {{[which |-> which, ran |-> ran] :
               ran \in {r \in [SAST_TOOLS -> ToolStatuses] :
                           \A t \in SAST_TOOLS :
                               IF t \in which THEN r[t] \in RunnerStatuses(t)
                               ELSE r[t] = "SKIP"}} :
           which \in SUBSET SAST_TOOLS}

\* the validator on a pending proposal: validate_patch(patch_id), attestation signed
\* and persisted
ValidatePending(stem, run, now) ==
    /\ PendingBytes(stem) # <<>>
    /\ Cardinality({id \in DOMAIN attFiles : attFiles[id] # <<>>}) < MaxAttested
    /\ LET bytes == PendingBytes(stem)[1]
           v == validate_patch(bytes, run.which, run.ran)
           a == sign_attestation(PatchIdOf(stem), sha256(bytes), v.checks, v.outcome,
                                 ValidatorPrivateKey, now)
       IN /\ attFiles' = Put(attFiles, PatchIdOf(stem), <<AttestationFile(a)>>)
          /\ validated' = Put(validated, PatchIdOf(stem), <<bytes>>)
          /\ toolRun' = <<[patch_id |-> PatchIdOf(stem), which |-> run.which,
                           results |-> run_sast(run.which, run.ran).results]>>
    /\ lastCall' = <<>>
    /\ UNCHANGED <<patchFiles, repo, integrated, nCalls, nTampers>>
    /\ UNCHANGED <<auditVars, attVars, serviceVars, gatewayVars>>

\* the operator runs integrate_patch on a pending proposal, the whole call
IntegratePending(stem, dry_run, human_confirmed) ==
    /\ nCalls < MaxCalls
    /\ LET id == PatchIdOf(stem)
           res == integrate_patch(Get(attFiles, id, <<>>), IntegratorPublicKey,
                                  PendingBytes(stem), PendingBytes(stem), repo, id,
                                  dry_run, human_confirmed)
       IN /\ repo' = res.repo
          /\ lastCall' = <<[patch_id |-> id, dry_run |-> dry_run,
                            human_confirmed |-> human_confirmed,
                            att_file |-> Get(attFiles, id, <<>>),
                            patch_file |-> PendingBytes(stem),
                            validated |-> Get(validated, id, <<>>), before |-> repo,
                            was_integrated |-> id \in integrated, result |-> res]>>
          /\ integrated' = IF res.ret = "True" /\ ~dry_run THEN integrated \cup {id}
                           ELSE integrated
    /\ nCalls' = nCalls + 1
    /\ UNCHANGED <<patchFiles, attFiles, validated, nTampers, toolRun>>
    /\ UNCHANGED <<auditVars, attVars, serviceVars, gatewayVars>>

NextPipeline ==
    \/ nRequests < MaxPipelineRequests /\ ProposePatch("10.0.0.1", PlainBody, {})
    \/ \E body \in PipelineBodies :
          nRequests < MaxPipelineRequests /\ ProposePatch("10.0.0.1", body, {})
    \/ \E stem \in PipelineStems, run \in ToolRuns : ValidatePending(stem, run, Now)
    \/ \E stem \in PipelineStems, dry_run \in BOOLEAN, human_confirmed \in BOOLEAN :
          nCalls < MaxPipelineCalls /\ IntegratePending(stem, dry_run, human_confirmed)

(***************************************************************************)
(* validator.py run again and again: --patch-id from the command line and  *)
(* the polls of --watch.                                                   *)
(***************************************************************************)
MaxValidations == 3

MaxWatchRequests == 2

\* the patch files patches_dir.glob("*.json") can find, sorted (line 247)
WatchStems == <<"00000001", "00000002">>

\* the clock of the validator at its n-th run
TimeAt(n) == <<"2026-01-01T00:00:0", n>>

\* the tool runs of this scenario: bandit installed or nothing installed
WatchRuns == {run \in ToolRuns : run.which \subseteq {"bandit"}}

\* the files of the validator and what is known of its runs
ValidatorState == [attFiles |-> attFiles, validated |-> validated, toolRun |-> toolRun,
                   processed |-> processed, n |-> nValidations]

\* validate_patch(patch_id) (lines 85-190) with _sign_attestation (lines 204-227):
\* att_file.write_text(...) whether or not the file is there
Validated(st, stem, run) ==
    LET bytes == PendingBytes(stem)[1]
        v == validate_patch(bytes, run.which, run.ran)
        a == sign_attestation(PatchIdOf(stem), sha256(bytes), v.checks, v.outcome,
                              ValidatorPrivateKey, TimeAt(st.n))
    IN [st EXCEPT !.attFiles = Put(st.attFiles, PatchIdOf(stem), <<AttestationFile(a)>>),
                  !.validated = Put(st.validated, PatchIdOf(stem), <<bytes>>),
                  !.toolRun = <<[patch_id |-> PatchIdOf(stem), which |-> run.which,
                                 results |-> run_sast(run.which, run.ran).results]>>,
                  !.n = st.n + 1]

\* one patch file of a poll (lines 248-261)
WatchOne(st, stem, run) ==
    IF stem \in st.processed THEN st
    ELSE IF Get(st.attFiles, PatchIdOf(stem), <<>>) # <<>>
    THEN [st EXCEPT !.processed = st.processed \cup {stem}]
    ELSE [Validated(st, stem, run) EXCEPT !.processed = st.processed \cup {stem}]

\* one poll of watch_mode (lines 245-261) from the i-th patch file on
RECURSIVE WatchPass(_, _, _)
WatchPass(st, i, runs) ==
    IF i > Len(WatchStems) THEN st
    ELSE WatchPass(IF PendingBytes(WatchStems[i]) = <<>> THEN st
                   ELSE WatchOne(st, WatchStems[i], runs[WatchStems[i]]),
                   i + 1, runs)

\* the state of the validator becomes st
ValidatorMoves(st) ==
    /\ attFiles' = st.attFiles
    /\ validated' = st.validated
    /\ toolRun' = st.toolRun
    /\ processed' = st.processed
    /\ nValidations' = st.n
    /\ lastCall' = <<>>
    /\ UNCHANGED <<integPc, hunkCall, allowVars, statusAnswer>>
    /\ UNCHANGED <<patchFiles, repo, integrated, nCalls, nTampers>>
    /\ UNCHANGED <<auditVars, attVars, gatewayVars>>

\* python -m tools.patch_validator.validator --patch-id <stem> (lines 298-302)
ValidateCli(stem, run) ==
    /\ PendingBytes(stem) # <<>>
    /\ nValidations < MaxValidations
    /\ ValidatorMoves(Validated(ValidatorState, stem, run))

\* one poll of a running --watch
WatchPoll(runs) ==
    /\ WatchPass(ValidatorState, 1, runs).n <= MaxValidations
    /\ WatchPass(ValidatorState, 1, runs) # ValidatorState
    /\ ValidatorMoves(WatchPass(ValidatorState, 1, runs))

\* --watch is stopped and started again: processed is a local of watch_mode (line 242)
WatchRestart ==
    /\ processed # {}
    /\ processed' = {}
    /\ UNCHANGED <<nValidations, integPc, hunkCall, allowVars, statusAnswer, auditVars, attVars, integVars, gatewayVars>>

NextValidator ==
    \/ \E body \in {PlainBody, JsonBytes(ProposalMedium, 0)} :
          nRequests < MaxWatchRequests /\ ProposePatch("10.0.0.1", body, {})
    \/ \E i \in 1..Len(WatchStems), run \in WatchRuns : ValidateCli(WatchStems[i], run)
    \/ \E runs \in [{WatchStems[i] : i \in 1..Len(WatchStems)} -> WatchRuns] : WatchPoll(runs)
    \/ WatchRestart

(***************************************************************************)
(* ip_allowlist.py: IPAllowlist over an allowlist file that is replaced    *)
(* behind its back.                                                        *)
(***************************************************************************)
MEMORY_REFRESH_SECONDS == 300

\* how far the clock moves in one step, and where the scenario ends
AllowTickSeconds == 200

MaxAllowTime == 400

\* an IPv4 network of prefix bits: the address with its host bits cleared
MaskOctets(octets, prefix) ==
    [i \in 1..4 |-> IF 8 * i <= prefix THEN octets[i]
                    ELSE IF 8 * (i - 1) >= prefix THEN 0
                    ELSE (octets[i] \div 2 ^ (8 * i - prefix)) * 2 ^ (8 * i - prefix)]

\* ipaddress.ip_network(cidr, strict=False) (line 97) on an element of "cidrs":
\* <<>> when it raises ValueError. A number is taken as the address of a /32
ip_network(cidr) ==
    CASE cidr[1] = "cidr" -> <<[addr |-> MaskOctets(cidr[2], cidr[3]), prefix |-> cidr[3]]>>
      [] cidr[1] = "int" -> <<[addr |-> <<0, 0, 0, cidr[2]>>, prefix |-> 32]>>
      [] OTHER -> <<>>

\* ipaddress.ip_address(ip_str) (line 137): <<>> when it raises ValueError
ip_address(ip_str) ==
    CASE ip_str = "192.0.2.100" -> <<<<192, 0, 2, 100>>>>
      [] ip_str = "8.8.8.8" -> <<<<8, 8, 8, 8>>>>
      [] ip_str = "127.0.0.1" -> <<<<127, 0, 0, 1>>>>
      [] ip_str = "10.0.0.1" -> <<<<10, 0, 0, 1>>>>
      [] ip_str = "0.0.0.1" -> <<<<0, 0, 0, 1>>>>
      [] OTHER -> <<>>

\* addr in net (line 151)
InNetwork(addr, net) == MaskOctets(addr, net.prefix) = net.addr

\* addr.is_loopback and addr.is_private (lines 142-145) for IPv4
is_loopback(addr) == InNetwork(addr, [addr |-> <<127, 0, 0, 0>>, prefix |-> 8])

PrivateNetworks ==
    {[addr |-> <<0, 0, 0, 0>>, prefix |-> 8], [addr |-> <<10, 0, 0, 0>>, prefix |-> 8],
     [addr |-> <<127, 0, 0, 0>>, prefix |-> 8], [addr |-> <<169, 254, 0, 0>>, prefix |-> 16],
     [addr |-> <<172, 16, 0, 0>>, prefix |-> 12], [addr |-> <<192, 0, 2, 0>>, prefix |-> 24],
     [addr |-> <<192, 168, 0, 0>>, prefix |-> 16], [addr |-> <<198, 18, 0, 0>>, prefix |-> 15],
     [addr |-> <<198, 51, 100, 0>>, prefix |-> 24], [addr |-> <<203, 0, 113, 0>>, prefix |-> 24],
     [addr |-> <<240, 0, 0, 0>>, prefix |-> 4]}

is_private(addr) == \E net \in PrivateNetworks : InNetwork(addr, net)

\* the networks of lines 93-99, and the exception the loop raises if any; "cidrs" is
\* absent, null or a list
LoadNetworks(data) ==
    LET cidrs == IF data.cidrs.type = "list" THEN data.cidrs.items ELSE <<>>
    IN IF data.cidrs.type = "null" THEN [raised |-> "TypeError", networks |-> {}]
       ELSE [raised |-> "",
             networks |-> UNION {{ip_network(cidrs[i])[k] : k \in 1..Len(ip_network(cidrs[i]))} :
                                    i \in 1..Len(cidrs)}]

\* _reload (lines 76-115): the object after it, and the exception that leaves it if any
_reload(self, file, now) ==
    IF file = <<>>
    THEN [raised |-> "", self |-> [self EXCEPT !._networks = {}, !._loaded_at = now]]
    ELSE IF file[1].kind \in {"unreadable", "notjson"}
    THEN [raised |-> "", self |-> [self EXCEPT !._networks = {}, !._loaded_at = now]]
    ELSE IF file[1].kind = "notutf8" THEN [raised |-> "UnicodeDecodeError", self |-> self]
    ELSE IF file[1].kind = "jsonlist" THEN [raised |-> "AttributeError", self |-> self]
    ELSE IF LoadNetworks(file[1].data).raised # ""
    THEN [raised |-> LoadNetworks(file[1].data).raised, self |-> self]
    ELSE IF file[1].data.fetched_at_epoch = "no number"
    THEN [raised |-> "ValueError",
          self |-> [self EXCEPT !._networks = LoadNetworks(file[1].data).networks,
                                !._loaded_at = now]]
    ELSE [raised |-> "",
          self |-> [self EXCEPT !._networks = LoadNetworks(file[1].data).networks,
                                !._loaded_at = now]]

\* _maybe_reload (lines 117-120)
_maybe_reload(self, file, now) ==
    IF now - self._loaded_at > MEMORY_REFRESH_SECONDS THEN _reload(self, file, now)
    ELSE [raised |-> "", self |-> self]

\* is_allowed after _maybe_reload (lines 136-153)
Allowed(self, ip_str) ==
    IF ip_address(ip_str) = <<>> THEN [allowed |-> FALSE, reason |-> "invalid"]
    ELSE IF self.bypass_loopback /\ is_loopback(ip_address(ip_str)[1])
    THEN [allowed |-> TRUE, reason |-> "loopback-bypass"]
    ELSE IF self.bypass_private /\ is_private(ip_address(ip_str)[1])
    THEN [allowed |-> TRUE, reason |-> "private-bypass"]
    ELSE IF self._networks = {} THEN [allowed |-> FALSE, reason |-> "allowlist-empty"]
    ELSE IF \E net \in self._networks : InNetwork(ip_address(ip_str)[1], net)
    THEN [allowed |-> TRUE, reason |-> "cidr-match"]
    ELSE [allowed |-> FALSE, reason |-> "no-match"]

\* is_allowed (lines 126-153): what it returns or raises, and the object afterwards
is_allowed(self, file, now, ip_str) ==
    IF _maybe_reload(self, file, now).raised # ""
    THEN [raised |-> _maybe_reload(self, file, now).raised, allowed |-> FALSE,
          reason |-> "", self |-> _maybe_reload(self, file, now).self]
    ELSE [raised |-> "", allowed |-> Allowed(_maybe_reload(self, file, now).self, ip_str).allowed,
          reason |-> Allowed(_maybe_reload(self, file, now).self, ip_str).reason,
          self |-> _maybe_reload(self, file, now).self]

\* the elements of "cidrs" a file of the scenario holds
CidrLists ==
    {<<>>, <<<<"str", "nope">>>>, <<<<"cidr", <<192, 0, 2, 77>>, 24>>>>,
     <<<<"str", "nope">>, <<"cidr", <<8, 8, 0, 0>>, 16>>>>, <<<<"int", 1>>>>}

\* the JSON object of an allowlist file; fetched_at_epoch is "absent", "number" or
\* "no number" (a text float() refuses)
AllowData(cidrs, fetched_at_epoch) == [cidrs |-> cidrs, fetched_at_epoch |-> fetched_at_epoch]

NoData == AllowData([type |-> "absent"], "absent")

\* what the allowlist file can be: missing, unreadable, no UTF-8, no JSON, a JSON
\* list, and JSON objects with and without "cidrs"
AllowFiles ==
    {<<>>} \cup {<<[kind |-> k, data |-> NoData]>> :
                    k \in {"unreadable", "notutf8", "notjson", "jsonlist", "json"}}
    \cup {<<[kind |-> "json", data |-> AllowData([type |-> "list", items |-> c], "number")]>> :
             c \in CidrLists}
    \cup {<<[kind |-> "json", data |-> AllowData([type |-> "null"], "number")]>>,
          <<[kind |-> "json",
             data |-> AllowData([type |-> "list",
                                 items |-> <<<<"cidr", <<192, 0, 2, 0>>, 24>>>>],
                                "no number")]>>}

AllowIps == {"192.0.2.100", "8.8.8.8", "127.0.0.1", "10.0.0.1", "0.0.0.1", "not-an-ip"}

AllowInit ==
    /\ allowFile = <<>>
    /\ ipList = <<>>
    /\ ipAnswer = <<>>
    /\ ipNow = 1000

\* sync_openai_ips.py or the operator replaces the file, or removes it
AllowWriteFile(file) ==
    /\ file # allowFile
    /\ allowFile' = file
    /\ ipAnswer' = <<>>
    /\ UNCHANGED <<ipList, ipNow, processed, nValidations, integPc, hunkCall, statusAnswer>>
    /\ UNCHANGED <<auditVars, attVars, integVars, gatewayVars>>

\* IPAllowlist(path, bypass_loopback, bypass_private) (lines 49-70); no object when
\* _reload raises
AllowConstruct(bypass_loopback, bypass_private) ==
    /\ ipList = <<>>
    /\ LET made == _reload([_networks |-> {}, _loaded_at |-> 0,
                            bypass_loopback |-> bypass_loopback,
                            bypass_private |-> bypass_private], allowFile, ipNow)
       IN ipList' = IF made.raised = "" THEN <<made.self>> ELSE <<>>
    /\ ipAnswer' = <<>>
    /\ UNCHANGED <<allowFile, ipNow, processed, nValidations, integPc, hunkCall, statusAnswer>>
    /\ UNCHANGED <<auditVars, attVars, integVars, gatewayVars>>

\* the gateway asks is_allowed(ip_str)
AllowIsAllowed(ip_str) ==
    /\ ipList # <<>>
    /\ ipList' = <<is_allowed(ipList[1], allowFile, ipNow, ip_str).self>>
    /\ ipAnswer' = <<[ip |-> ip_str, file |-> allowFile, at |-> ipNow, before |-> ipList[1],
                      raised |-> is_allowed(ipList[1], allowFile, ipNow, ip_str).raised,
                      allowed |-> is_allowed(ipList[1], allowFile, ipNow, ip_str).allowed,
                      reason |-> is_allowed(ipList[1], allowFile, ipNow, ip_str).reason]>>
    /\ UNCHANGED <<allowFile, ipNow, processed, nValidations, integPc, hunkCall, statusAnswer>>
    /\ UNCHANGED <<auditVars, attVars, integVars, gatewayVars>>

\* time passes
AllowTick ==
    /\ ipNow + AllowTickSeconds <= 1000 + MaxAllowTime
    /\ ipNow' = ipNow + AllowTickSeconds
    /\ ipAnswer' = <<>>
    /\ UNCHANGED <<allowFile, ipList, processed, nValidations, integPc, hunkCall, statusAnswer>>
    /\ UNCHANGED <<auditVars, attVars, integVars, gatewayVars>>

NextAllow ==
    \/ \E file \in AllowFiles : AllowWriteFile(file)
    \/ \E bypass_loopback \in BOOLEAN, bypass_private \in BOOLEAN :
          AllowConstruct(bypass_loopback, bypass_private)
    \/ \E ip_str \in AllowIps : AllowIsAllowed(ip_str)
    \/ AllowTick

(***************************************************************************)
(* The life of a proposal in the gateway: the TTL sweep of main.py, the    *)
(* status query of patch_router.py, and a restart of the process.          *)
(***************************************************************************)
PATCH_TTL_SECONDS == 86400

\* how far the clock moves in one step, and where the scenario ends
SweepTickSeconds == 43200

MaxSweepTime == 129600

MaxSweepRequests == 2

MaxRestarts == 1

\* jail.list_patches() (lines 231-234): the stems of patches/*.json, sorted
SweepStems == <<"00000001", "00000002">>

\* the gateway's files and its audit log
SweepState == [dir |-> patchesDir, archive |-> archiveDir, log |-> logFile, inst |-> inst,
               who |-> lineWho]

\* jail.archive_patch and audit.append(event="PATCH_TTL_EXPIRED", ...) have run
\* (main.py lines 347-355): the files are as archive_patch left them, the log has a line
SweepAudited(st, archived, patch_id, now) ==
    LET entry == MakeEntry(st.inst.seq + 1, ToString(now), "PATCH_TTL_EXPIRED", "system",
                           patch_id, "ttl-cleaner", "ARCHIVED",
                           safe_detail(<<"patch_id", "age">>), st.inst.prev_hash)
    IN [dir |-> archived.dir, archive |-> archived.archive,
        log |-> Append(st.log, JsonLine(entry)),
        inst |-> [seq |-> st.inst.seq + 1, prev_hash |-> entry.entry_hash],
        who |-> Append(st.who, <<instId, 0>>)]

\* created_dt.timestamp() of lines 339-344: <<>> when the file is no JSON object with
\* a _meta.created_at that fromisoformat reads
CreatedAt(content) ==
    IF content.data.kind # "json" THEN <<>>
    ELSE IF "created_at" \notin DOMAIN Get(content.data.data, "_meta", <<>>) THEN <<>>
    ELSE <<content.data.data._meta.created_at>>

\* one patch of a sweep (lines 335-358); an exception is logged and the patch skipped
SweepOne(st, patch_id, now, archived) ==
    IF CreatedAt(st.dir[JsonName(patch_id)]) = <<>> THEN st
    ELSE IF ~(now - CreatedAt(st.dir[JsonName(patch_id)])[1] > PATCH_TTL_SECONDS) THEN st
    ELSE IF archived.raised # "" THEN st
    ELSE SweepAudited(st, archived, patch_id, now)

\* one pass of _ttl_cleanup_loop (lines 331-360) from the i-th patch on; archived is
\* what jail.archive_patch does to the files if the pass calls it
RECURSIVE SweepFrom(_, _, _)
SweepFrom(st, i, now) ==
    IF i > Len(SweepStems) THEN st
    ELSE CHOOSE end \in
             {SweepFrom(next, i + 1, now) :
                 next \in {IF JsonName(SweepStems[i]) \notin DOMAIN st.dir THEN st
                           ELSE SweepOne(st, SweepStems[i], now, archived) :
                              archived \in {archive_patch(st.dir, st.archive, SweepStems[i],
                                                          "ttl-expired", "posix", {})}}} : TRUE

\* the state of the gateway's files becomes st
SweepMoves(st) ==
    /\ patchesDir' = st.dir
    /\ archiveDir' = st.archive
    /\ logFile' = st.log
    /\ inst' = st.inst
    /\ lineWho' = st.who
    /\ chainVerdict' = <<>>
    /\ statusAnswer' = <<>>
    /\ UNCHANGED <<jailCall, instId, tamper, lock, tpc, tloc, overlap>>
    /\ UNCHANGED <<processed, nValidations, integPc, hunkCall, allowVars>>
    /\ UNCHANGED <<attVars, integVars, jailVars, workerVars, intakeVars>>

\* the hourly pass of _ttl_cleanup_loop
TtlSweep == \E st \in {SweepFrom(SweepState, 1, clock)} : SweepMoves(st)

\* half a day passes
HoursPass ==
    /\ clock + SweepTickSeconds <= MaxSweepTime
    /\ clock' = clock + SweepTickSeconds
    /\ statusAnswer' = <<>>
    /\ UNCHANGED <<_patch_rate, _patch_meta, response, nRequests, nOddRequests>>
    /\ UNCHANGED <<processed, nValidations, integPc, hunkCall, allowVars>>
    /\ UNCHANGED <<auditVars, attVars, integVars, jailVars, quotaVars, workerVars>>

\* re.fullmatch(r"[a-f0-9\-]{32,36}", patch_id.lower()) (line 276)
StatusIdOk(patch_id) == patch_id \in {"00000001", "00000002", "0000000f"}

\* get_patch_status (lines 267-304): the HTTP status and the status field it answers
get_patch_status(patch_id, dir, meta) ==
    IF ~StatusIdOk(patch_id) THEN [code |-> 400, status |-> ""]
    ELSE IF JsonName(patch_id) \in DOMAIN dir
    THEN IF dir[JsonName(patch_id)].data.kind # "json" THEN [code |-> 500, status |-> ""]
         ELSE [code |-> 200,
               status |-> Get(Get(dir[JsonName(patch_id)].data.data, "_meta", <<>>),
                              "status", "pending")]
    ELSE IF patch_id \in DOMAIN meta
    THEN [code |-> 200, status |-> Get(meta[patch_id], "status", "archived")]
    ELSE [code |-> 404, status |-> ""]

\* GET /status/{patch_id}: the answer, with where the proposal was when it was given
StatusQuery(patch_id) ==
    /\ statusAnswer' = <<[patch_id |-> patch_id,
                          answer |-> get_patch_status(patch_id, patchesDir, _patch_meta),
                          live |-> JsonName(patch_id) \in DOMAIN patchesDir,
                          archived |-> \E a \in DOMAIN archiveDir : a[1] = patch_id,
                          restarts |-> instId - 1]>>
    /\ UNCHANGED <<processed, nValidations, integPc, hunkCall, allowVars>>
    /\ UNCHANGED <<auditVars, attVars, integVars, gatewayVars>>

\* the gateway process is stopped and started: _patch_meta and _patch_rate are module
\* globals (lines 63, 83) and lifespan makes a new ChainedAuditLog (main.py line 61)
GatewayRestart ==
    /\ instId <= MaxRestarts
    /\ _patch_meta' = <<>>
    /\ _patch_rate' = <<>>
    /\ inst' = _bootstrap(logFile)
    /\ instId' = instId + 1
    /\ chainVerdict' = <<>>
    /\ statusAnswer' = <<>>
    /\ UNCHANGED <<logFile, lineWho, tamper, lock, tpc, tloc, overlap>>
    /\ UNCHANGED <<clock, response, nRequests, nOddRequests>>
    /\ UNCHANGED <<processed, nValidations, integPc, hunkCall, allowVars>>
    /\ UNCHANGED <<attVars, integVars, jailVars, quotaVars, workerVars>>

NextLifecycle ==
    \/ \E body \in {PlainBody, JsonBytes(ProposalMedium, 0)} :
          nRequests < MaxSweepRequests /\ ProposePatch("10.0.0.1", body, {})
    \/ HoursPass
    \/ TtlSweep
    \/ \E patch_id \in {"00000001", "00000002", "0000000f", "not-an-id"} :
          StatusQuery(patch_id)
    \/ GatewayRestart

GatewayInit ==
    /\ JailPathInit
    /\ QuotaInit
    /\ WorkerInit
    /\ IntakeInit

Init ==
    /\ AuditInit
    /\ AttInit
    /\ IntegInit
    /\ GatewayInit
    /\ processed = {}
    /\ nValidations = 0
    /\ AllowInit
    /\ integPc = <<>>
    /\ HunksInit
    /\ statusAnswer = <<>>

SpecAudit == Init /\ [][NextAudit]_vars

SpecAuditConc == Init /\ [][NextAuditConc]_vars

SpecAtt == Init /\ [][NextAtt]_vars

SpecInteg == Init /\ [][NextInteg]_vars

SpecIntegConc == Init /\ [][NextIntegConc]_vars

SpecHunks == Init /\ [][NextHunks]_vars

SpecJail == Init /\ [][NextJail]_vars

SpecQuota == Init /\ [][NextQuota]_vars

SpecQuotaConc == Init /\ [][NextQuotaConc]_vars

SpecIntake == Init /\ [][NextIntake]_vars

SpecPipeline == Init /\ [][NextPipeline]_vars

SpecValidator == Init /\ [][NextValidator]_vars

SpecAllow == Init /\ [][NextAllow]_vars

\* the sweep runs every hour for as long as the gateway runs (main.py lines 328-329)
SpecLifecycle == Init /\ [][NextLifecycle]_vars /\ WF_vars(TtlSweep)

(***************************************************************************)
(* Properties of the audit log.                                            *)
(***************************************************************************)
\* what an intact chain is, stated on the file alone
ChainIntact(file) ==
    \A i \in 1..Len(file) :
        /\ file[i].kind = "obj"
        /\ LET e == file[i].val IN
           /\ DOMAIN e = EntryFields
           /\ e.seq = i
           /\ e.prev_hash = (IF i = 1 THEN _GENESIS_HASH ELSE file[i - 1].val.entry_hash)
           /\ e.entry_hash = <<"sha256", [k \in EntryFields \ {"entry_hash"} |-> e[k]]>>

\* C7: after any sequence of appends, by one instance or by a new instance opened on
\* the file earlier instances wrote, the file is an intact chain (genesis first, every
\* prev_hash the entry_hash before it, every entry_hash the hash of the other fields,
\* seq 1, 2, 3, ...) and verify_chain returns ok=true.
C7_ChainIntactAfterAppends ==
    tamper.kind = "none" =>
        /\ ChainIntact(logFile)
        /\ chainVerdict # <<>> => chainVerdict[1] = VerdictOk(Len(logFile))

C7_Witness ==
    /\ tamper.kind = "none"
    /\ Len(logFile) >= 2
    /\ chainVerdict = <<VerdictOk(Len(logFile))>>
    /\ \E i \in 1..(Len(lineWho) - 1) : lineWho[i][1] # lineWho[i + 1][1]

\* C8: one field of one entry changed to a different value makes verify_chain
\* return ok=false.
C8_FieldTamperDetected ==
    (tamper.kind = "field" /\ chainVerdict # <<>>) =>
        (~chainVerdict[1].ok /\ ~chainVerdict[1].raised)

C8_Witness ==
    /\ tamper.kind = "field"
    /\ tamper.field = "detail"
    /\ tamper.at = Len(logFile)
    /\ tamper.at >= 2
    /\ chainVerdict # <<>>
    /\ ~chainVerdict[1].ok

\* C9: deleting any one entry, first, middle or last, makes verify_chain return
\* ok=false.
C9_DeletionDetected ==
    (tamper.kind = "delete" /\ chainVerdict # <<>>) => ~chainVerdict[1].ok

\* C10: for every interleaving of concurrent appends on one instance the file holds
\* consecutive, duplicate-free seq numbers, every prev_hash is the entry_hash of the
\* line written just before, and verify_chain returns ok=true.
C10_ConcurrentChainIntact ==
    /\ ChainIntact(logFile)
    /\ chainVerdict # <<>> => chainVerdict[1] = VerdictOk(Len(logFile))

C10_Witness ==
    /\ overlap
    /\ Len(logFile) >= 2
    /\ \E i \in 1..(Len(lineWho) - 1) : lineWho[i][2] # lineWho[i + 1][2]
    /\ chainVerdict = <<VerdictOk(Len(logFile))>>

\* C11: verify_chain never raises: on a log with a line that is no JSON, a line that is
\* JSON but no object, or an entry without prev_hash or entry_hash it returns ok=false
\* with the number of the first offending line; on an empty log it returns ok=true.
C11_VerifyNeverRaises ==
    chainVerdict # <<>> =>
        /\ ~chainVerdict[1].raised
        /\ tamper.kind \in {"line", "drop"}
              => (~chainVerdict[1].ok /\ chainVerdict[1].line = tamper.at)
        /\ logFile = <<>> => chainVerdict[1] = VerdictOk(0)

(***************************************************************************)
(* Properties of the jail.                                                 *)
(***************************************************************************)
\* what the caller's string holds, read off the segments it was made of
SegHasDotDot(seg) == \E i \in 1..(Len(seg) - 1) : seg[i] = "." /\ seg[i + 1] = "."

SegHasNul(seg) == \E i \in 1..Len(seg) : seg[i] = "\\x00"

\* a colon that no separator follows
PathHasAdsColon(path) ==
    \E k \in 1..Len(path.segs) :
        \E i \in 1..Len(path.segs[k]) :
            /\ path.segs[k][i] = ":"
            /\ (i < Len(path.segs[k]) \/ k = Len(path.segs))

SegIsReserved(seg) ==
    /\ seg # <<>>
    /\ seg[1] \in {"con", "CoN", "CON", "nul", "NUL", "prn", "aux", "com1", "lpt1"}
    /\ (Len(seg) = 1 \/ seg[2] = ".")

SegIsForbidden(seg) ==
    seg \in {<<".", "git">>, <<".", "Git">>, <<".", "env">>, <<".", "ssh">>, <<"build">>,
             <<"dist">>, <<"venv">>, <<"secrets">>, <<"node_modules">>}

CountedSegments(path) == {k \in 1..Len(path.segs) : path.segs[k] \notin {<<>>, <<".">>}}

\* the refusal reasons of C12 other than "..", on the caller's string
ListedHazard(path) ==
    \/ \E k \in 1..Len(path.segs) : SegHasNul(path.segs[k])
    \/ PathHasAdsColon(path)
    \/ Cardinality(CountedSegments(path)) > 8
    \/ \E k \in 1..Len(path.segs) : SegIsReserved(path.segs[k])
    \/ \E k \in 1..Len(path.segs) : SegIsForbidden(path.segs[k])

\* a plain relative path: no leading separator, no colon, no backslash, no link on the way
PlainRelative(path, links) ==
    /\ (path.raw = <<>> \/ path.raw[1] \notin {"/", "\\"})
    /\ \A k \in 1..Len(path.segs) : \A i \in 1..Len(path.segs[k]) : path.segs[k][i] # ":"
    /\ \A k \in 1..Len(path.seps) : path.seps[k] = "/"
    /\ \A k \in 1..Len(path.segs) : path.segs[k] \notin links

C12_WitnessReturned ==
    /\ jailResult # <<>>
    /\ Len(jailPath.segs) = 8
    /\ \A k \in 1..8 : jailPath.segs[k] = <<"a">>
    /\ ~jailResult[1].result.raised
    /\ Len(jailResult[1].result.path[1].comps) = 8

(***************************************************************************)
(* Properties of the pending-patch quota.                                  *)
(***************************************************************************)
Pending(dir) == Cardinality(DOMAIN dir)

\* a write_patch call with a well-formed file name not yet in patches/, a content
\* within the size limit, and patches/ an ordinary directory
ValidNewWrite(call) ==
    /\ call.op = "write_patch"
    /\ call.name \in PatchNames
    /\ call.name \notin DOMAIN call.before
    /\ call.content.len <= 524288
    /\ call.links = {}

\* C13: under sequential write_patch and archive_patch calls, patches/ never holds
\* more than 5 pending files; a write with a valid new file name succeeds when fewer
\* than 5 are pending (also after archive_patch has made room), and raises
\* PatchQuotaExceeded and writes nothing when 5 are pending.
C13_QuotaHolds ==
    /\ Pending(patchesDir) <= 5
    /\ (jailCall # <<>> /\ ValidNewWrite(jailCall[1])) =>
          LET call == jailCall[1] IN
          IF Pending(call.before) < 5
          THEN /\ call.raised = ""
               /\ DOMAIN patchesDir = DOMAIN call.before \cup {call.name}
               /\ patchesDir[call.name] = call.content
               /\ \A n \in DOMAIN call.before : patchesDir[n] = call.before[n]
          ELSE /\ call.raised = "PatchQuotaExceeded"
               /\ patchesDir = call.before

C13_Witness ==
    /\ jailCall # <<>>
    /\ ValidNewWrite(jailCall[1])
    /\ Pending(jailCall[1].before) = 5
    /\ jailCall[1].raised = "PatchQuotaExceeded"

\* a sixth file name gets in after one of the first five was archived
C13_WitnessAfterArchive ==
    /\ jailCall # <<>>
    /\ ValidNewWrite(jailCall[1])
    /\ jailCall[1].raised = ""
    /\ archiveDir # <<>>
    /\ Pending(patchesDir) = 5
    /\ \A n \in DOMAIN patchesDir : ArchiveName(n[1], "processed") \notin DOMAIN archiveDir

BodyRisk(body) ==
    IF body.kind = "json" THEN Get(body.data, "risk_level", "#missing") ELSE "#missing"

BodyFailsSchema(body) ==
    body.kind # "json" \/ ~validate_proposal([type |-> "dict", val |-> body.data]).valid

\* C15: a request body that fails validate_proposal writes no file under patches/; a
\* body with a risk_level other than low or medium is refused whatever else it holds;
\* every file the intake has written is a schema-valid proposal with _meta.status
\* pending.
C15_OnlyValidProposalsWritten ==
    /\ response # <<>> =>
          LET r == response[1] IN
          /\ (BodyFailsSchema(r.body) \/ BodyRisk(r.body) \notin {"low", "medium"}) =>
                (patchesDir = r.before /\ r.status # 200)
          /\ (r.body.kind = "json" /\ BodyRisk(r.body) \notin {"low", "medium"}) =>
                r.status \in {422, 429}
    /\ \A n \in DOMAIN patchesDir :
          LET doc == patchesDir[n].data.data IN
          /\ doc["_meta"].status = "pending"
          /\ doc.risk_level \in {"low", "medium"}
          /\ validate_proposal([type |-> "dict", val |-> doc]).valid

\* a high-risk proposal, otherwise in order, is answered 422 while others are pending
C15_Witness ==
    /\ response # <<>>
    /\ response[1].body = JsonBytes(Put(ProposalLow, "risk_level", "high"), 0)
    /\ response[1].status = 422
    /\ patchesDir # <<>>
    /\ patchesDir = response[1].before

\* an accepted proposal that brought "_meta": {"status": "approved"} is stored pending
C15_WitnessOwnMeta ==
    /\ response # <<>>
    /\ response[1].body = JsonBytes(ProposalMedium, 0)
    /\ response[1].status = 200
    /\ JsonName(response[1].patch_id) \in DOMAIN patchesDir
    /\ patchesDir[JsonName(response[1].patch_id)].data.data["_meta"].status = "pending"

\* the last request was refused: it left no pending file of its own
Refused(r) == r.status # 200

\* C16: every submission the intake refuses (rate-limited, no valid JSON,
\* schema-invalid, over 512 KB once serialized, over quota, jail violation) is
\* answered with a client-error status, has appended one audit entry with outcome
\* DENIED, and has written nothing to the jail.
C16_RefusalsAuditedDenied ==
    (response # <<>> /\ Refused(response[1])) =>
        LET r == response[1] IN
        /\ r.status \in {400, 403, 422, 429}
        /\ Len(r.audited) = 1
        /\ r.audited[1].outcome = "DENIED"
        /\ Len(logFile) = r.logged + 1
        /\ patchesDir = r.before

\* a schema-valid proposal over 512 KB once serialized: write_patch raises
\* PermissionError, the handler catches neither it nor anything like it
C16_OversizeUnaudited ==
    /\ response # <<>>
    /\ response[1].body = JsonBytes(ProposalBig, 0)
    /\ response[1].status = 500
    /\ response[1].detail = "PermissionError"
    /\ response[1].audited = <<>>
    /\ Len(logFile) = response[1].logged

(***************************************************************************)
(* Properties of the validator and of the three phases end to end.         *)
(***************************************************************************)
\* the paths a proposal document targets
TargetPaths(doc) ==
    {Get(Get(doc, "target_files", <<>>)[i], "path", "") :
        i \in 1..Len(Get(doc, "target_files", <<>>))}

\* the path names a file under .github/workflows/ of the repository, or matches a
\* pattern of HARD_BLOCKED_PATTERNS as it is written
UnderHardBlock(path) == HardBlocked(path) \/ HardBlocked(RepoPath(path))

\* the document with its _meta override flag set to flag, and without any _meta
MetaVariants(doc) ==
    {Put(doc, "_meta", Put(Get(doc, "_meta", <<>>), "requires_manual_override", flag)) :
        flag \in BOOLEAN} \cup {Without(doc, "_meta")}

\* the last integrate_patch call returned false and changed nothing
AbortedUntouched(call) ==
    /\ call.result.ret = "False"
    /\ call.result.repo = call.before
    /\ call.result.muts = <<>>

\* what C17 says of the proposals whose target paths satisfy Blocked
HardBlockHolds(Blocked(_)) ==
    /\ \A stem \in PipelineStems :
          (PendingBytes(stem) # <<>>
              /\ \E path \in TargetPaths(PendingBytes(stem)[1].data) : Blocked(path)) =>
          /\ \A doc \in MetaVariants(PendingBytes(stem)[1].data), run \in ToolRuns :
                /\ check_structure(doc).hard_blocked
                /\ ~check_structure(doc).passed
                /\ validate_patch(JsonBytes(doc, 2), run.which, run.ran).outcome = "REJECTED"
          /\ Get(attFiles, PatchIdOf(stem), <<>>) # <<>> =>
                attFiles[PatchIdOf(stem)][1].val.outcome = "REJECTED"
    /\ (lastCall # <<>>
          /\ lastCall[1].patch_file # <<>>
          /\ lastCall[1].att_file # <<>>
          /\ \E path \in TargetPaths(lastCall[1].patch_file[1].data) : Blocked(path)) =>
          AbortedUntouched(lastCall[1])

\* C17: for every proposal with a target path under .github/workflows/ (or matching
\* another hard-blocked pattern), whatever its _meta override flags and whatever the
\* tools yield, check_structure returns hard_blocked and not passed, the validator
\* attests REJECTED, and integrate_patch returns false without mutation for every
\* dry_run and human_confirmed.
C17_HardBlockAlwaysRejected == HardBlockHolds(UnderHardBlock)

\* C17, for the paths in which a hard-blocked pattern is found as they are written
C17_MatchedPathRejected == HardBlockHolds(HardBlocked)

\* a confirmed integration has rewritten the CI workflow: the proposal spelt the path
\* .github//workflows/ci.yml or .github/./workflows/ci.yml
C17_WorkflowRewritten ==
    /\ lastCall # <<>>
    /\ lastCall[1].human_confirmed
    /\ lastCall[1].result.ret = "True"
    /\ lastCall[1].result.muts # <<>>
    /\ HeadTree(repo)[".github/workflows/ci.yml"] # InitTree[".github/workflows/ci.yml"]

\* the integrator was run, confirmed, on the rejected proposal for
\* .github/workflows/ci.yml
C17_WitnessMatched ==
    /\ lastCall # <<>>
    /\ lastCall[1].human_confirmed
    /\ lastCall[1].patch_file # <<>>
    /\ ".github/workflows/ci.yml" \in TargetPaths(lastCall[1].patch_file[1].data)
    /\ lastCall[1].att_file # <<>>
    /\ lastCall[1].att_file[1].val.outcome = "REJECTED"
    /\ lastCall[1].result.ret = "False"

\* the attestation the validator signed in its last run
LastAttestation == attFiles[toolRun[1].patch_id][1].val

\* C18: if a static-analysis tool ends with status ERROR, the validator does not
\* attest the patch as APPROVED.
C18_ErrorNeverApproved ==
    (toolRun # <<>> /\ \E t \in SAST_TOOLS : toolRun[1].results[t] = "ERROR") =>
        LastAttestation.outcome # "APPROVED"

\* bandit ended with ERROR, nothing failed, and the patch was attested APPROVED with
\* sast PASS
C18_ErrorApproved ==
    /\ toolRun # <<>>
    /\ toolRun[1].results["bandit"] = "ERROR"
    /\ LastAttestation.outcome = "APPROVED"
    /\ LastAttestation.checks["sast"] = "PASS"

\* C19: in every attestation the validator signs, each value of the checks map is one
\* of PASS, FAIL, SKIP, MANUAL_REQUIRED and the outcome is one of APPROVED, REJECTED,
\* MANUAL_REQUIRED, for every combination of the tools' results.
C19_AttestationValuesInRange ==
    \A stem \in PipelineStems :
        Get(attFiles, PatchIdOf(stem), <<>>) # <<>> =>
            LET a == attFiles[PatchIdOf(stem)][1].val IN
            /\ \A c \in DOMAIN a.checks :
                  a.checks[c] \in {"PASS", "FAIL", "SKIP", "MANUAL_REQUIRED"}
            /\ a.outcome \in {"APPROVED", "REJECTED", "MANUAL_REQUIRED"}

\* gitleaks ended with ERROR and bandit with FAIL: the patch is rejected and the
\* attestation says secrets ERROR
C19_SecretsError ==
    /\ toolRun # <<>>
    /\ toolRun[1].results["gitleaks"] = "ERROR"
    /\ toolRun[1].results["bandit"] = "FAIL"
    /\ LastAttestation.outcome = "REJECTED"
    /\ LastAttestation.checks["secrets"] = "ERROR"

\* a schema-valid low-risk proposal of one hunk for an unprotected file of the
\* repository, the hunk's range inside the file
PlainProposal(doc) ==
    /\ validate_proposal([type |-> "dict", val |-> doc]).valid
    /\ doc.risk_level = "low"
    /\ Len(doc.target_files) = 1
    /\ Len(doc.target_files[1].hunks) = 1
    /\ LET path == doc.target_files[1].path
           hunk == doc.target_files[1].hunks[1]
       IN /\ ~is_protected(path)
          /\ ~UnderHardBlock(path)
          /\ RepoPath(path) \in DOMAIN InitTree
          /\ hunk.end_line <= Len(InitTree[RepoPath(path)].lines)

\* a plain proposal whose new_lines are another text than the lines they replace
PlainChange(doc) ==
    /\ PlainProposal(doc)
    /\ LET hunk == doc.target_files[1].hunks[1]
       IN hunk.new_lines # SubSeq(InitTree[RepoPath(doc.target_files[1].path)].lines,
                                  hunk.start_line, hunk.end_line)

\* the lines of the target file with start_line..end_line replaced by new_lines
Replaced(doc) ==
    LET lines == InitTree[RepoPath(doc.target_files[1].path)].lines
        hunk == doc.target_files[1].hunks[1]
    IN SubSeq(lines, 1, hunk.start_line - 1) \o hunk.new_lines
       \o SubSeq(lines, hunk.end_line + 1, Len(lines))

\* what C20 says of the proposals that satisfy InScope
EndToEndHolds(InScope(_)) ==
    /\ (response # <<>> /\ response[1].body.kind = "json"
          /\ InScope(response[1].body.data)) =>
          /\ response[1].status = 200
          /\ PendingBytes(response[1].patch_id) # <<>>
          /\ Without(PendingBytes(response[1].patch_id)[1].data, "_meta")
                = response[1].body.data
    /\ \A stem \in PipelineStems :
          (PendingBytes(stem) # <<>> /\ InScope(PendingBytes(stem)[1].data)) =>
          LET doc == PendingBytes(stem)[1].data
              id == PatchIdOf(stem)
          IN /\ check_structure(doc).passed
             /\ ~check_structure(doc).hard_blocked
             /\ run_sast({}, [t \in SAST_TOOLS |-> "SKIP"]).overall = "SKIP"
             /\ (toolRun # <<>> /\ toolRun[1].patch_id = id /\ toolRun[1].which = {}) =>
                   /\ attFiles[id][1].val.outcome = "APPROVED"
                   /\ attFiles[id][1].val.checks["sast"] = "SKIP"
                   /\ (lastCall # <<>> /\ lastCall[1].patch_id = id
                         /\ ~lastCall[1].dry_run /\ lastCall[1].att_file # <<>>) =>
                         /\ lastCall[1].result.ret = "True"
                         /\ repo.head = <<"gptactions/patch-", stem>>
                         /\ Len(repo.branches[repo.head])
                               = Len(lastCall[1].before.branches[MainBranch]) + 1
                         /\ HeadTree(repo) =
                               [InitTree EXCEPT ![RepoPath(doc.target_files[1].path)] =
                                                   FileText(Replaced(doc))]
                         /\ repo.wt = HeadTree(repo)
                         /\ TreeOf(repo, MainBranch) = InitTree

\* C20: end to end, a valid single-hunk low-risk proposal for an unprotected source
\* file is accepted by the intake, passes the structural check (passed, not
\* hard_blocked), gets overall SKIP from static analysis when no tool is installed,
\* is attested APPROVED, and integrate_patch then returns true with the target
\* file's lines start_line..end_line replaced by exactly the hunk's new_lines,
\* committed on the branch gptactions/patch- followed by the first 8 characters of
\* the patch ID.
C20_EndToEnd == EndToEndHolds(PlainProposal)

\* C20, for the proposals that change the text of the file
C20_ChangeIntegrated == EndToEndHolds(PlainChange)

\* the plain proposal for tools/example.py went through the three phases with no tool
\* installed and is committed on its branch
C20_Witness ==
    /\ lastCall # <<>>
    /\ ~lastCall[1].dry_run
    /\ ~lastCall[1].human_confirmed
    /\ lastCall[1].patch_file = PendingBytes("00000001")
    /\ PendingBytes("00000001") # <<>>
    /\ Without(PendingBytes("00000001")[1].data, "_meta") = ProposalLow
    /\ toolRun # <<>>
    /\ toolRun[1].which = {}
    /\ lastCall[1].att_file # <<>>
    /\ lastCall[1].att_file[1].val.outcome = "APPROVED"
    /\ lastCall[1].result.ret = "True"
    /\ repo.head = <<"gptactions/patch-", "00000001">>
    /\ HeadTree(repo)["tools/example.py"].lines = <<"x", "l2", "l3">>

\* a proposal that writes the text the file has already is attested APPROVED, and
\* integrate_patch raises CalledProcessError from git commit, on the new branch
C20_NoopRaises ==
    /\ lastCall # <<>>
    /\ lastCall[1].patch_file # <<>>
    /\ Without(lastCall[1].patch_file[1].data, "_meta") = ProposalNoop
    /\ lastCall[1].result.ret = "CalledProcessError"
    /\ lastCall[1].result.repo.head = <<"gptactions/patch-", "00000001">>

\* what C21 says of the proposals that change the dependency file named path
DependencyGateHolds(path) ==
    /\ (response # <<>> /\ response[1].body.kind = "json"
          /\ TargetPaths(response[1].body.data) = {path}) =>
          /\ response[1].status = 200
          /\ PendingBytes(response[1].patch_id) # <<>>
          /\ check_structure(PendingBytes(response[1].patch_id)[1].data)
                .dependency_gate_triggered
          /\ ~check_structure(PendingBytes(response[1].patch_id)[1].data).hard_blocked
    /\ \A stem \in PipelineStems :
          (PendingBytes(stem) # <<>> /\ TargetPaths(PendingBytes(stem)[1].data) = {path}
              /\ toolRun # <<>> /\ toolRun[1].patch_id = PatchIdOf(stem)
              /\ \A t \in SAST_TOOLS : toolRun[1].results[t] # "FAIL") =>
              LastAttestation.outcome = "MANUAL_REQUIRED"

\* C21: end to end, a proposal submitted to the intake that changes requirements.txt
\* is stored as pending, check_structure sets dependency_gate_triggered and not
\* hard_blocked for it, and, static analysis not failing, the validator attests
\* MANUAL_REQUIRED.
C21_RequirementsEndToEnd == DependencyGateHolds("requirements.txt")

\* C21, for setup.py, a dependency file whose extension the intake allows
C21_SetupPyManual == DependencyGateHolds("setup.py")

\* the intake answered 422 to the proposal for requirements.txt and stored nothing
C21_RequirementsRefused ==
    /\ response # <<>>
    /\ response[1].body.kind = "json"
    /\ TargetPaths(response[1].body.data) = {"requirements.txt"}
    /\ response[1].status = 422
    /\ PendingBytes(response[1].patch_id) = <<>>
    /\ check_structure(response[1].body.data).dependency_gate_triggered

\* the proposal for setup.py is pending and, no tool failing, attested MANUAL_REQUIRED
C21_WitnessSetupPy ==
    /\ PendingBytes("00000001") # <<>>
    /\ TargetPaths(PendingBytes("00000001")[1].data) = {"setup.py"}
    /\ toolRun # <<>>
    /\ \A t \in SAST_TOOLS : toolRun[1].results[t] # "FAIL"
    /\ LastAttestation.outcome = "MANUAL_REQUIRED"
    /\ LastAttestation.checks["deps"] = "MANUAL_REQUIRED"

\* no attestation file that is there is written again in this step
AttestationsKept ==
    \A i \in 1..Len(WatchStems) :
        Get(attFiles, PatchIdOf(WatchStems[i]), <<>>) # <<>> =>
            Get(attFiles, PatchIdOf(WatchStems[i]), <<>>)'
                = Get(attFiles, PatchIdOf(WatchStems[i]), <<>>)

\* C22: once a verdict has been signed and its attestation file persisted for a patch
\* ID, no later validator action, neither a watch-mode poll nor another
\* validate_patch run on the same ID, re-validates the patch or replaces the
\* attestation.
C22_VerdictImmutable == [][AttestationsKept]_vars

\* C22, for the polls of watch mode: the steps that add to processed
C22_WatchKeepsVerdict == [][processed' \ processed # {} => AttestationsKept]_vars

\* the only pending patch has been validated twice and its attestation file is the
\* one of the second run
C22_SecondRunReplaced ==
    /\ PendingBytes("00000002") = <<>>
    /\ nValidations = 2
    /\ Get(attFiles, PatchIdOf("00000001"), <<>>) # <<>>
    /\ attFiles[PatchIdOf("00000001")][1].val.timestamp = TimeAt(1)

\* a poll of watch mode has met an attested patch and left its attestation as it was
C22_WitnessPollSkipped ==
    /\ "00000001" \in processed
    /\ nValidations = 1
    /\ PendingBytes("00000002") # <<>>
    /\ "00000002" \notin processed
    /\ Get(attFiles, PatchIdOf("00000001"), <<>>) # <<>>
    /\ attFiles[PatchIdOf("00000001")][1].val.timestamp = TimeAt(0)

(***************************************************************************)
(* Properties of the IP allowlist.                                         *)
(***************************************************************************)
\* the file is a JSON object whose "cidrs" list has a CIDR text in it
HoldsValidCidr(file) ==
    /\ file # <<>>
    /\ file[1].kind = "json"
    /\ file[1].data.cidrs.type = "list"
    /\ \E i \in 1..Len(file[1].data.cidrs.items) : file[1].data.cidrs.items[i][1] = "cidr"

\* the address of the call is inside a network the object holds after it
InsideLoaded(call) ==
    /\ ip_address(call.ip) # <<>>
    /\ \E net \in ipList[1]._networks : InNetwork(ip_address(call.ip)[1], net)

\* an allowed address outside every loaded network came in by a bypass flag
OnlyBypassOutside(call) ==
    (call.raised = "" /\ call.allowed /\ ~InsideLoaded(call)) =>
        \/ call.before.bypass_loopback /\ is_loopback(ip_address(call.ip)[1])
        \/ call.before.bypass_private /\ is_private(ip_address(call.ip)[1])

\* C23: with both bypass flags off, is_allowed returns (false, reason) for every IP
\* whenever the allowlist file is missing, unreadable, not valid JSON or holds no
\* valid CIDR, and otherwise returns true only for an IP inside a loaded CIDR; the
\* bypass flags are the only way an IP outside every loaded CIDR is allowed.
C23_FailsClosed ==
    ipAnswer # <<>> =>
        /\ (~ipAnswer[1].before.bypass_loopback /\ ~ipAnswer[1].before.bypass_private
              /\ ~HoldsValidCidr(ipAnswer[1].file)) =>
              (ipAnswer[1].raised = "" /\ ~ipAnswer[1].allowed)
        /\ OnlyBypassOutside(ipAnswer[1])

\* C23, of the calls that read the file: it is missing, unreadable, no JSON, or a
\* JSON object whose "cidrs" is a list of texts none of which is a CIDR (or is absent)
C23_DeniedOnceReloaded ==
    ipAnswer # <<>> =>
        /\ (~ipAnswer[1].before.bypass_loopback /\ ~ipAnswer[1].before.bypass_private
              /\ ipAnswer[1].at - ipAnswer[1].before._loaded_at > MEMORY_REFRESH_SECONDS
              /\ \/ ipAnswer[1].file = <<>>
                 \/ ipAnswer[1].file[1].kind \in {"unreadable", "notjson"}
                 \/ /\ ipAnswer[1].file[1].kind = "json"
                    /\ LoadNetworks(ipAnswer[1].file[1].data).raised = ""
                    /\ ipAnswer[1].file[1].data.fetched_at_epoch # "no number"
                    /\ LoadNetworks(ipAnswer[1].file[1].data).networks = {}) =>
              (ipAnswer[1].raised = "" /\ ~ipAnswer[1].allowed)
        /\ OnlyBypassOutside(ipAnswer[1])

\* the file has become a JSON list: is_allowed raises AttributeError, with the
\* networks of the earlier file still loaded
C23_RaisedOnJsonList ==
    /\ ipAnswer # <<>>
    /\ ipAnswer[1].file # <<>>
    /\ ipAnswer[1].file[1].kind = "jsonlist"
    /\ ipAnswer[1].raised = "AttributeError"
    /\ ipList[1]._networks # {}

\* the file is gone and is_allowed, flags off, still returns true from the copy in
\* memory
C23_AllowedWhileMissing ==
    /\ ipAnswer # <<>>
    /\ ipAnswer[1].file = <<>>
    /\ ~ipAnswer[1].before.bypass_loopback
    /\ ~ipAnswer[1].before.bypass_private
    /\ ipAnswer[1].allowed

\* the file is gone, the copy in memory is older than the refresh time, and
\* is_allowed, flags off, returns false for an address it allowed before
C23_WitnessDenied ==
    /\ ipAnswer # <<>>
    /\ ipAnswer[1].file = <<>>
    /\ ipAnswer[1].ip = "192.0.2.100"
    /\ ~ipAnswer[1].before.bypass_loopback
    /\ ~ipAnswer[1].before.bypass_private
    /\ ipAnswer[1].before._networks # {}
    /\ ipAnswer[1].raised = ""
    /\ ~ipAnswer[1].allowed
    /\ ipAnswer[1].reason = "allowlist-empty"

(***************************************************************************)
(* Properties of the life of a proposal in the gateway.                    *)
(***************************************************************************)
\* the proposal is pending and older than PATCH_TTL_SECONDS
Expired(patch_id) ==
    /\ JsonName(patch_id) \in DOMAIN patchesDir
    /\ CreatedAt(patchesDir[JsonName(patch_id)]) # <<>>
    /\ clock - CreatedAt(patchesDir[JsonName(patch_id)])[1] > PATCH_TTL_SECONDS

\* the sweep has moved the proposal to archive/ and its quota slot is free
SweptAway(patch_id) ==
    /\ JsonName(patch_id) \notin DOMAIN patchesDir
    /\ ArchiveName(patch_id, "ttl-expired") \in DOMAIN archiveDir

\* every file of patches/ and of archive/ is, with its bytes, in one of the two after
\* this step
FilesKept ==
    /\ \A n \in DOMAIN patchesDir :
          \/ n \in DOMAIN patchesDir' /\ patchesDir'[n] = patchesDir[n]
          \/ \E a \in DOMAIN archiveDir' : a[1] = n[1] /\ archiveDir'[a] = patchesDir[n]
    /\ \A a \in DOMAIN archiveDir : a \in DOMAIN archiveDir' /\ archiveDir'[a] = archiveDir[a]

\* C24: every pending proposal whose age exceeds PATCH_TTL_SECONDS is eventually moved
\* by the TTL sweep from patches/ to archive/, freeing its quota slot, and archiving
\* never deletes: every proposal file ever written stays, with its bytes, in patches/
\* or in archive/ after any sequence of sweeps and archive_patch calls.
C24_ExpiredArchivedNeverDeleted ==
    /\ [][FilesKept]_vars
    /\ \A i \in 1..Len(SweepStems) : Expired(SweepStems[i]) ~> SweptAway(SweepStems[i])

\* the first proposal has been swept into archive/ with the bytes the intake wrote,
\* and the second, younger than the TTL, is pending
C24_Witness ==
    /\ SweptAway("00000001")
    /\ Without(archiveDir[ArchiveName("00000001", "ttl-expired")].data.data, "_meta")
          = ProposalLow
    /\ JsonName("00000002") \in DOMAIN patchesDir
    /\ ~Expired("00000002")
    /\ \E i \in 1..Len(logFile) : logFile[i].val.event = "PATCH_TTL_EXPIRED"

\* a sweep has left a proposal exactly PATCH_TTL_SECONDS old pending
C24_WitnessAtTtl ==
    /\ JsonName("00000002") \in DOMAIN patchesDir
    /\ clock - CreatedAt(patchesDir[JsonName("00000002")])[1] = PATCH_TTL_SECONDS
    /\ SweptAway("00000001")
    /\ \E i \in 1..Len(logFile) : logFile[i].val.event = "PATCH_TTL_EXPIRED"

\* C29: the status query follows the patch lifecycle: for a patch that the TTL sweep
\* or archive_patch has moved to the archive it returns status archived (not
\* pending), and it returns 404 only for a well-formed patch ID that is neither live
\* in patches/ nor archived, also after the gateway process has been restarted.
C29_StatusFollowsLifecycle ==
    statusAnswer # <<>> =>
        /\ (statusAnswer[1].archived /\ ~statusAnswer[1].live) =>
              /\ statusAnswer[1].answer.code = 200
              /\ statusAnswer[1].answer.status = "archived"
        /\ statusAnswer[1].answer.code = 404 =>
              /\ StatusIdOk(statusAnswer[1].patch_id)
              /\ ~statusAnswer[1].live
              /\ ~statusAnswer[1].archived

\* C29, what the query does answer: a proposal in patches/ is found with the status
\* of its file, an ID that was never issued is 404, a malformed ID is 400, and no
\* answer at all says archived
C29_LiveFoundNeverArchived ==
    statusAnswer # <<>> =>
        /\ ~StatusIdOk(statusAnswer[1].patch_id) => statusAnswer[1].answer.code = 400
        /\ (StatusIdOk(statusAnswer[1].patch_id) /\ statusAnswer[1].live) =>
              statusAnswer[1].answer = [code |-> 200, status |-> "pending"]
        /\ (/\ StatusIdOk(statusAnswer[1].patch_id)
            /\ ~statusAnswer[1].live
            /\ ~statusAnswer[1].archived) => statusAnswer[1].answer.code = 404
        /\ statusAnswer[1].answer.status # "archived"

\* the sweep has archived the proposal and the process that took it in answers pending
C29_ArchivedAnswersPending ==
    /\ statusAnswer # <<>>
    /\ statusAnswer[1].archived
    /\ ~statusAnswer[1].live
    /\ statusAnswer[1].restarts = 0
    /\ statusAnswer[1].answer = [code |-> 200, status |-> "pending"]

\* the sweep has archived the proposal and, after a restart, the query answers 404
C29_ArchivedNotFoundAfterRestart ==
    /\ statusAnswer # <<>>
    /\ statusAnswer[1].archived
    /\ ~statusAnswer[1].live
    /\ statusAnswer[1].restarts > 0
    /\ statusAnswer[1].answer.code = 404

\* a pending proposal is found after a restart
C29_WitnessLiveAfterRestart ==
    /\ statusAnswer # <<>>
    /\ statusAnswer[1].live
    /\ statusAnswer[1].restarts > 0
    /\ statusAnswer[1].answer = [code |-> 200, status |-> "pending"]

\* the call changed a file of the repository
WroteFiles(call) == \E i \in 1..Len(call.result.muts) : call.result.muts[i] = "write"

\* C25: the anti-TOCTOU check holds against a writer that runs concurrently with
\* integrate(): every hunk that integrate() applies to the repository is parsed from
\* exactly the patch bytes whose SHA-256 was compared with attestation.patch_hash, so
\* content that was never attested is never applied even when the intake-side
\* process rewrites the patch file while integrate() is executing.
C25_AppliedBytesAreHashedBytes ==
    (lastCall # <<>> /\ WroteFiles(lastCall[1])) =>
        /\ lastCall[1].read_parse = lastCall[1].read_hash
        /\ sha256(lastCall[1].read_parse[1]) = lastCall[1].att_file[1].val.patch_hash

\* C25, of the bytes read first: a call that changes the repository has compared the
\* hash of the bytes of its first read with a verified attestation, and when the file
\* was the same at the second read the hunks applied are those of the attested bytes
C25_HashedBytesAttested ==
    (lastCall # <<>> /\ WroteFiles(lastCall[1])) =>
        /\ verify_attestation(lastCall[1].att_file[1].val, IntegratorPublicKey) = "ok"
        /\ sha256(lastCall[1].read_hash[1]) = lastCall[1].att_file[1].val.patch_hash
        /\ lastCall[1].read_parse # <<>>
        /\ lastCall[1].read_parse = lastCall[1].read_hash =>
              sha256(lastCall[1].read_parse[1]) = lastCall[1].att_file[1].val.patch_hash

\* the file was rewritten between the two reads, and the hunks of bytes that no
\* attestation covers are committed
C25_UnattestedApplied ==
    /\ lastCall # <<>>
    /\ lastCall[1].result.ret = "True"
    /\ WroteFiles(lastCall[1])
    /\ lastCall[1].read_hash = <<JsonBytes(PatchGood, 0)>>
    /\ lastCall[1].read_parse = <<JsonBytes(PatchGrow, 0)>>
    /\ lastCall[1].att_file[1].val.patch_hash = sha256(JsonBytes(PatchGood, 0))
    /\ repo.wt["a.py"] = FileText(<<"l1", "l2", "n">>)

\* the file was rewritten before the first read: the call returns False and the
\* repository is as it was
C25_WitnessRewriteCaught ==
    /\ lastCall # <<>>
    /\ lastCall[1].read_hash = <<JsonBytes(PatchGrow, 0)>>
    /\ lastCall[1].att_file # <<>>
    /\ lastCall[1].att_file[1].val.patch_hash = sha256(JsonBytes(PatchGood, 0))
    /\ lastCall[1].att_file[1].val.outcome = "APPROVED"
    /\ lastCall[1].result.ret = "False"
    /\ repo = lastCall[1].before

\* the hunks' ranges lie inside the file and no two of them share a line
RangesDisjointInside(lines, hunks) ==
    /\ \A i \in 1..Len(hunks) : hunks[i].end_line <= Len(lines)
    /\ \A i, j \in 1..Len(hunks) :
          i # j => \/ hunks[i].end_line < hunks[j].start_line
                   \/ hunks[j].end_line < hunks[i].start_line

\* the original lines, line by line: a line where a hunk starts gives way to the
\* hunk's new_lines, a line further inside a hunk's range to nothing
RECURSIVE ReplacedFrom(_, _, _)
ReplacedFrom(lines, hunks, n) ==
    IF n > Len(lines) THEN <<>>
    ELSE (IF \E i \in 1..Len(hunks) : hunks[i].start_line = n
          THEN hunks[CHOOSE i \in 1..Len(hunks) : hunks[i].start_line = n].new_lines
          ELSE IF \E i \in 1..Len(hunks) : hunks[i].start_line < n /\ n <= hunks[i].end_line
          THEN <<>>
          ELSE <<lines[n]>>) \o ReplacedFrom(lines, hunks, n + 1)

\* C26: for hunks of one file whose line ranges [start_line, end_line] are pairwise
\* disjoint and lie inside the file, _apply_hunks returns the original lines with
\* each range replaced by that hunk's new_lines, every range being read against the
\* original line numbers, and the result is the same for every order in which the
\* hunks are listed in the proposal.
C26_DisjointHunksReplaceRanges ==
    (hunkCall.result # <<>> /\ RangesDisjointInside(hunkCall.lines, hunkCall.hunks)) =>
        /\ hunkCall.result[1] = ReplacedFrom(hunkCall.lines, hunkCall.hunks, 1)
        /\ \A p \in Permutations(1..Len(hunkCall.hunks)) :
              _apply_hunks(hunkCall.lines, [i \in 1..Len(hunkCall.hunks) |-> hunkCall.hunks[p[i]]])
                 = hunkCall.result[1]

\* two disjoint hunks, the one further down the file listed first and changing the
\* number of lines, have been applied
C26_Witness ==
    /\ hunkCall.result # <<>>
    /\ Len(hunkCall.hunks) = 2
    /\ RangesDisjointInside(hunkCall.lines, hunkCall.hunks)
    /\ hunkCall.hunks[1].start_line > hunkCall.hunks[2].end_line
    /\ hunkCall.hunks[2].end_line > hunkCall.hunks[2].start_line
    /\ hunkCall.hunks[2].new_lines = <<>>
    /\ Len(hunkCall.hunks[1].new_lines) = 2
    /\ Len(hunkCall.lines) = MaxFileLines

\* the call applied one hunk, and its old_lines is empty
OneEmptyOldHunk ==
    /\ hunkCall.result # <<>>
    /\ Len(hunkCall.hunks) = 1
    /\ hunkCall.hunks[1].old_lines = <<>>

\* C28: a hunk whose old_lines is empty is a pure insertion: integrating it adds its
\* new_lines at start_line and removes no existing line of the target file, so the
\* file's line count grows by exactly the number of new_lines.
C28_EmptyOldIsPureInsertion ==
    OneEmptyOldHunk =>
        /\ Len(hunkCall.result[1]) = Len(hunkCall.lines) + Len(hunkCall.hunks[1].new_lines)
        /\ hunkCall.result[1]
              = SubSeq(hunkCall.lines, 1, Min(hunkCall.hunks[1].start_line - 1, Len(hunkCall.lines)))
                \o hunkCall.hunks[1].new_lines
                \o SubSeq(hunkCall.lines, hunkCall.hunks[1].start_line, Len(hunkCall.lines))

\* C28, what the hunk does: whatever its old_lines, the lines start_line..end_line
\* that the file has give way to new_lines, so the hunk adds without removing only
\* when start_line lies past the end of the file
C28_EmptyOldReplacesRange ==
    OneEmptyOldHunk =>
        /\ hunkCall.result[1]
              = SubSeq(hunkCall.lines, 1, Min(hunkCall.hunks[1].start_line - 1, Len(hunkCall.lines)))
                \o hunkCall.hunks[1].new_lines
                \o SubSeq(hunkCall.lines, hunkCall.hunks[1].end_line + 1, Len(hunkCall.lines))
        /\ hunkCall.result[1]
              = _apply_hunks(hunkCall.lines,
                             <<[hunkCall.hunks[1] EXCEPT !.old_lines = <<<<"o", 1>>>>]>>)
        /\ (Len(hunkCall.result[1])
               = Len(hunkCall.lines) + Len(hunkCall.hunks[1].new_lines))
             <=> hunkCall.hunks[1].start_line > Len(hunkCall.lines)

\* a hunk with empty old_lines and one new line at line 2 of a file of three lines:
\* the file still has three lines and its line 2 is gone
C28_LineReplaced ==
    /\ OneEmptyOldHunk
    /\ hunkCall.lines = <<FileLine(1), FileLine(2), FileLine(3)>>
    /\ hunkCall.hunks[1] = HunkOld(2, 2, <<>>, <<NewLine(1)>>)
    /\ hunkCall.result[1] = <<FileLine(1), NewLine(1), FileLine(3)>>

\* a hunk with empty old_lines whose start_line is one past the last line: the new
\* lines are added and no line is removed
C28_WitnessAppended ==
    /\ OneEmptyOldHunk
    /\ hunkCall.hunks[1].start_line = Len(hunkCall.lines) + 1
    /\ hunkCall.hunks[1].new_lines # <<>>
    /\ hunkCall.result[1] = hunkCall.lines \o hunkCall.hunks[1].new_lines

\* the validator has just attested the pending proposal stem
JustValidated(stem) ==
    /\ toolRun # <<>>
    /\ toolRun[1].patch_id = PatchIdOf(stem)
    /\ Get(validated, PatchIdOf(stem), <<>>) # <<>>
    /\ validated[PatchIdOf(stem)][1].kind = "json"
    /\ Get(attFiles, PatchIdOf(stem), <<>>) # <<>>

\* the outcome validate_patch signs, in the same run of the tools, for the proposal
\* file with its _meta replaced
OutcomeFor(doc) ==
    validate_patch(JsonBytes(doc, 0), toolRun[1].which, toolRun[1].results).outcome

\* C27: the validation phase does not trust _meta flags written by the intake
\* process: two proposal files that differ only in their _meta object receive the
\* same check_structure result and the same attestation outcome from the validator.
C27_MetaNotTrusted ==
    \A stem \in PipelineStems :
        JustValidated(stem) =>
            \A doc \in MetaVariants(validated[PatchIdOf(stem)][1].data) :
                /\ check_structure(doc) = check_structure(validated[PatchIdOf(stem)][1].data)
                /\ OutcomeFor(doc) = attFiles[PatchIdOf(stem)][1].val.outcome

\* C27, what does not depend on _meta: the result of check_structure, and whether the
\* outcome is REJECTED; the flag _meta.requires_manual_override tells APPROVED from
\* MANUAL_REQUIRED when no dependency file is touched
C27_MetaDecidesApproval ==
    \A stem \in PipelineStems :
        JustValidated(stem) =>
            \A doc \in MetaVariants(validated[PatchIdOf(stem)][1].data) :
                /\ check_structure(doc) = check_structure(validated[PatchIdOf(stem)][1].data)
                /\ \/ OutcomeFor(doc) = attFiles[PatchIdOf(stem)][1].val.outcome
                   \/ /\ ~check_structure(doc).dependency_gate_triggered
                      /\ {OutcomeFor(doc), attFiles[PatchIdOf(stem)][1].val.outcome}
                            = {"APPROVED", "MANUAL_REQUIRED"}
                      /\ (OutcomeFor(doc) = "MANUAL_REQUIRED")
                            <=> Get(Get(doc, "_meta", <<>>), "requires_manual_override", FALSE)

\* the proposal for security/jail.py, flagged by the intake, is attested
\* MANUAL_REQUIRED with every check passed, and the same file with the flag cleared
\* would be attested APPROVED
C27_FlagAloneHoldsBack ==
    \E stem \in PipelineStems :
        /\ JustValidated(stem)
        /\ Without(validated[PatchIdOf(stem)][1].data, "_meta") = Without(ProposalMedium, "_meta")
        /\ validated[PatchIdOf(stem)][1].data._meta.requires_manual_override
        /\ attFiles[PatchIdOf(stem)][1].val.outcome = "MANUAL_REQUIRED"
        /\ attFiles[PatchIdOf(stem)][1].val.checks.deps = "PASS"
        /\ OutcomeFor(Put(validated[PatchIdOf(stem)][1].data, "_meta",
                          Put(validated[PatchIdOf(stem)][1].data._meta,
                              "requires_manual_override", FALSE))) = "APPROVED"

\* a proposal for setup.py is attested MANUAL_REQUIRED by the dependency gate,
\* whatever its _meta says
C27_WitnessGateIgnoresMeta ==
    \E stem \in PipelineStems :
        /\ JustValidated(stem)
        /\ check_structure(validated[PatchIdOf(stem)][1].data).dependency_gate_triggered
        /\ attFiles[PatchIdOf(stem)][1].val.outcome = "MANUAL_REQUIRED"
        /\ \A doc \in MetaVariants(validated[PatchIdOf(stem)][1].data) :
              OutcomeFor(doc) = "MANUAL_REQUIRED"

\* the patch IDs whose commits lie on the branch
CommitsOn(branch) == {branch[i].msg.patch_id : i \in 1..Len(branch)} \ {InitCommit.msg.patch_id}

\* C30: integration branches are isolated from one another: after integrate(A) has
\* succeeded and integrate(B) then succeeds for a different patch B, the branch
\* created for B contains B's commit but not A's commit, that is, every integration
\* branch starts from the line the repository was on before any integration, and a
\* failed integration leaves the repository on the branch it was on before the call.
C30_BranchesIsolated ==
    /\ \A id \in integrated :
          BranchName(id) \in DOMAIN repo.branches =>
              CommitsOn(repo.branches[BranchName(id)]) = {id}
    /\ (lastCall # <<>> /\ lastCall[1].result.ret # "True") =>
          lastCall[1].result.repo.head = lastCall[1].before.head

\* C30, what integrate_patch does: a successful call that creates its branch makes it
\* from the branch that is checked out and adds its commit, and stays on it; a call
\* that ends before the branch step leaves the repository as it was
C30_BranchFromCheckedOut ==
    lastCall # <<>> =>
        /\ (/\ lastCall[1].result.ret = "True"
            /\ ~lastCall[1].dry_run
            /\ BranchName(lastCall[1].patch_id) \notin DOMAIN lastCall[1].before.branches) =>
              /\ lastCall[1].result.repo.head = BranchName(lastCall[1].patch_id)
              /\ Len(lastCall[1].result.repo.branches[BranchName(lastCall[1].patch_id)])
                    = Len(lastCall[1].before.branches[lastCall[1].before.head]) + 1
              /\ SubSeq(lastCall[1].result.repo.branches[BranchName(lastCall[1].patch_id)], 1,
                        Len(lastCall[1].before.branches[lastCall[1].before.head]))
                    = lastCall[1].before.branches[lastCall[1].before.head]
              /\ lastCall[1].patch_id
                    \in CommitsOn(lastCall[1].result.repo.branches[BranchName(lastCall[1].patch_id)])
        /\ lastCall[1].result.muts = <<>> => lastCall[1].result.repo = lastCall[1].before

\* two patches have been integrated one after the other, and the branch of the
\* second holds the commit of the first
C30_SecondBranchHoldsFirst ==
    /\ integrated = PatchIds
    /\ \E a, b \in PatchIds :
          /\ a # b
          /\ repo.head = BranchName(b)
          /\ CommitsOn(repo.branches[BranchName(b)]) = {a, b}
          /\ CommitsOn(repo.branches[BranchName(a)]) = {a}

\* a call has failed after the branch step and the repository is left on the
\* integration branch
C30_FailedLeftOnBranch ==
    /\ lastCall # <<>>
    /\ lastCall[1].result.ret # "True"
    /\ lastCall[1].before.head = MainBranch
    /\ lastCall[1].result.repo.head = BranchName(lastCall[1].patch_id)

\* the first integration has made its branch from main with one commit of its own
C30_WitnessFirstFromMain ==
    /\ lastCall # <<>>
    /\ lastCall[1].result.ret = "True"
    /\ ~lastCall[1].dry_run
    /\ lastCall[1].before.head = MainBranch
    /\ repo.head = BranchName(lastCall[1].patch_id)
    /\ CommitsOn(repo.branches[repo.head]) = {lastCall[1].patch_id}
    /\ repo.branches[MainBranch] = <<InitCommit>>

(***************************************************************************)
(* Properties of the attestation.                                          *)
(***************************************************************************)
\* what the integrator reads is what sign returned, but for the text that encodes the
\* signature bytes
SameSignedContent(a, orig) ==
    /\ [k \in (DOMAIN a) \ {"signature"} |-> a[k]]
           = [k \in (DOMAIN orig) \ {"signature"} |-> orig[k]]
    /\ "signature" \in DOMAIN a
    /\ Len(a.signature) = 2
    /\ a.signature[1] \in {"padded", "unpadded", "junk-chars"}
    /\ a.signature[2] = orig.signature[2]

C3_WitnessRoundTrip ==
    /\ attVerdict # <<>>
    /\ attObj = attSigned
    /\ attVerdict[1].result = "ok"

C3_WitnessReencoded ==
    /\ attVerdict # <<>>
    /\ attObj # attSigned
    /\ SameSignedContent(attObj[1], attSigned[1])
    /\ attVerdict[1].result = "ok"

(***************************************************************************)
(* Properties of the integrator.                                           *)
(***************************************************************************)
\* the signature of attestation a is a base64 text of a signature made with the
\* private key of keypair key over a's other fields
GenuineFor(a, key) ==
    /\ "signature" \in DOMAIN a
    /\ Len(a.signature) = 2
    /\ a.signature[1] \in {"padded", "unpadded", "junk-chars"}
    /\ a.signature[2] = [key |-> key, message |-> [k \in (DOMAIN a) \ {"signature"} |-> a[k]]]

\* the attestation file of a call held a JSON object
CallHasAttestation(c) == c.att_file # <<>> /\ c.att_file[1].kind = "obj"

\* the five gates of a call, from the files as they were when it was made
CallGatesHeld(c) ==
    /\ c.att_file # <<>>
    /\ c.att_file[1].kind # "garbage"
    /\ c.att_file[1].kind = "obj"
    /\ LET a == c.att_file[1].val IN
       /\ GenuineFor(a, IntegratorPublicKey)
       /\ a.outcome # "REJECTED"
       /\ (a.outcome # "MANUAL_REQUIRED" \/ c.human_confirmed)
       /\ c.patch_file # <<>>
       /\ a.patch_hash = <<"sha256", c.patch_file[1]>>

Untouched(c) == c.result.muts = <<>> /\ c.result.repo = c.before

\* C1: a call mutates the repository (branch, file write, stage, commit) only if the
\* attestation exists, parses and verifies, is not REJECTED, is not MANUAL_REQUIRED
\* unless confirmed, the patch hash matches, and dry_run is false; and whenever one of
\* the first five gates fails the call returns false.
C1_GatesGuardMutation ==
    lastCall # <<>> =>
        LET c == lastCall[1] IN
        /\ ~Untouched(c) => (CallGatesHeld(c) /\ ~c.dry_run)
        /\ ~CallGatesHeld(c) => c.result.ret = "False"

\* the first half of C1 alone: no mutation without the gates
C1_NoMutationWithoutGates ==
    lastCall # <<>> =>
        (~Untouched(lastCall[1]) => (CallGatesHeld(lastCall[1]) /\ ~lastCall[1].dry_run))

\* the call of C2: a genuine attestation, APPROVED or MANUAL_REQUIRED and confirmed,
\* made by the validator over bytes that are no longer the bytes of the patch file
CallAfterSwap(c) ==
    /\ CallHasAttestation(c)
    /\ GenuineFor(c.att_file[1].val, IntegratorPublicKey)
    /\ \/ c.att_file[1].val.outcome = "APPROVED"
       \/ c.att_file[1].val.outcome = "MANUAL_REQUIRED" /\ c.human_confirmed
    /\ c.validated # <<>>
    /\ c.att_file[1].val.patch_hash = <<"sha256", c.validated[1]>>
    /\ c.patch_file # <<>>
    /\ c.patch_file[1] # c.validated[1]

\* C2: when the bytes of the patch file were changed after the validator hashed them
\* and before the call, integrate returns false, writes no file, creates no branch,
\* makes no commit.
C2_SwappedPatchRefused ==
    lastCall # <<>> =>
        (CallAfterSwap(lastCall[1]) =>
            (lastCall[1].result.ret = "False" /\ Untouched(lastCall[1])))

C2_Witness ==
    /\ lastCall # <<>>
    /\ CallAfterSwap(lastCall[1])
    /\ ~lastCall[1].dry_run
    /\ lastCall[1].patch_file[1].kind = "json"
    /\ lastCall[1].patch_file[1].data = lastCall[1].validated[1].data
    /\ lastCall[1].result.ret = "False"

\* C4: once integrate(id) has returned true in a call that was no dry run, no later
\* integrate(id, ...) mutates the repository.
C4_IntegratedIsTerminal ==
    lastCall # <<>> => (lastCall[1].was_integrated => Untouched(lastCall[1]))

\* C5: when applying a target file fails, integrate returns false, makes no commit,
\* and every file of the working tree has its content of before the call.
C5_AllOrNothing ==
    lastCall # <<>> =>
        LET c == lastCall[1] IN
        c.result.errors > 0 =>
            /\ c.result.ret = "False"
            /\ \A m \in 1..Len(c.result.muts) : c.result.muts[m] # "commit"
            /\ c.result.repo.wt = c.before.wt

\* the attestation a signed again by the key that signed it, its outcome replaced
Reattested(a, outcome) ==
    LET b == [a EXCEPT !["outcome"] = outcome]
        key == a.signature[2].key
    IN [b EXCEPT !["signature"] = B64Encode(Ed25519Sign(key, Without(b, "signature")))]

\* the call c made again with another attestation file and confirmation flag
Replay(c, att_file, human_confirmed) ==
    integrate_patch(att_file, IntegratorPublicKey, c.patch_file, c.patch_file, c.before,
                    c.patch_id, c.dry_run, human_confirmed)

\* C6: on a MANUAL_REQUIRED attestation, integrate without confirmation returns false
\* and mutates nothing, dry run or not; with confirmation it returns what it returns,
\* and leaves the repository as it leaves it, on the same patch attested APPROVED; on
\* an APPROVED or REJECTED attestation the confirmation flag changes nothing.
C6_ManualGate ==
    (lastCall # <<>> /\ CallHasAttestation(lastCall[1])) =>
        LET c == lastCall[1]
            a == c.att_file[1].val
            signedBySomeone == \E k \in Keypairs : GenuineFor(a, k)
        IN /\ (a.outcome = "MANUAL_REQUIRED" /\ ~c.human_confirmed)
                => (c.result.ret = "False" /\ Untouched(c))
           /\ (a.outcome = "MANUAL_REQUIRED" /\ c.human_confirmed /\ signedBySomeone)
                => \A h \in BOOLEAN :
                      LET twin == Replay(c, <<AttestationFile(Reattested(a, "APPROVED"))>>, h)
                      IN twin.ret = c.result.ret /\ twin.repo = c.result.repo
           /\ a.outcome \in {"APPROVED", "REJECTED"}
                => Replay(c, c.att_file, ~c.human_confirmed) = c.result

C6_Witness ==
    /\ lastCall # <<>>
    /\ CallHasAttestation(lastCall[1])
    /\ lastCall[1].att_file[1].val.outcome = "MANUAL_REQUIRED"
    /\ lastCall[1].human_confirmed
    /\ ~lastCall[1].dry_run
    /\ lastCall[1].result.ret = "True"
    /\ \E m \in 1..Len(lastCall[1].result.muts) : lastCall[1].result.muts[m] = "commit"

C6_WitnessBlocked ==
    /\ lastCall # <<>>
    /\ CallHasAttestation(lastCall[1])
    /\ GenuineFor(lastCall[1].att_file[1].val, IntegratorPublicKey)
    /\ lastCall[1].att_file[1].val.outcome = "MANUAL_REQUIRED"
    /\ ~lastCall[1].human_confirmed
    /\ lastCall[1].dry_run
    /\ lastCall[1].result.ret = "False"

====
